---- MODULE Spec2Model ----
(***************************************************************************)
(* State-machine model of the recording pipeline of mentascribe-desktop:   *)
(*   audio/capture.rs        start_capture, the CPAL callback, stop_capture *)
(*   transcription/whisper.rs start_streaming, vad_monitor_loop,            *)
(*                            stop_streaming, transcribe                    *)
(*   transcription/voxtral.rs start_streaming, voxtral_stream_loop,         *)
(*                            stop_streaming, transcribe                    *)
(*   lib.rs                   start_recording, stop_recording,              *)
(*                            reset_recording_state, update_settings        *)
(*                                                                         *)
(* Audio is counted in blocks.  One callback delivers one block; a block   *)
(* is named <<t, k>>: delivered by capture thread t as the k-th block of   *)
(* the run.  The                                                           *)
(* resampler and the downmix keep the order of the blocks, so a block      *)
(* keeps its name in the raw buffer, in the accumulator and in the         *)
(* normalized buffer.  The sample thresholds of the streaming monitor are  *)
(* scaled to blocks of 0.5 s (8000 samples).                               *)
(***************************************************************************)
EXTENDS Integers, Sequences, FiniteSets, TLC

\* ----------------------------------------------------------------- bounds
\* Spec: two sessions, so that a command of one session can meet the next one
MaxSessions == 2
MaxFrames == 2
\* reset_recording_state and update_settings commands issued in a run
MaxAdmin == 1
\* SessionSpec: one session with more audio
SessionFrames == 4
OverlapFrames == 3
\* TextSpec: fragments handed to the text assembly
MaxFragments == 2
\* longest window handed to the detector, in blocks of 8000 samples
MaxWindow == 6
\* most chunks given to one VoiceActivityDetector, and the longest chunk
MaxChunks == 6
MaxChunkLen == 2
\* longest text enumerated character by character
MaxShortText == 3
\* longest text given to process_text
MaxProcessText == 4
\* most Whisper contexts created, and most cache-using calls begun
MaxLoads == 2
MaxCalls == 3

\* ------------------------------------------------------ program constants
\* whisper.rs MIN_VAD_SAMPLES = 16000 (1 s), in blocks of 8000 samples
MIN_VAD_SAMPLES == 2
\* whisper.rs MIN_SPEECH_SAMPLES = 8000 (0.5 s), in blocks of 8000 samples
MIN_SPEECH_SAMPLES == 1
\* whisper.rs MIN_SILENCE_GAP = 0.5 s, in blocks of 8000 samples
MIN_SILENCE_GAP == 1
\* capture.rs chunk_size = 1024 mono frames, here two blocks per chunk
chunk_size == 2
\* whisper.rs 558: filtered_duration < 0.5, in blocks of 8000 samples
MIN_FILTERED_SAMPLES == 1
\* vad.rs 19 energy_threshold 0.01, in amplitude steps of 0.01
energy_threshold == 1
\* vad.rs 20 min_speech_samples 1600, in runs of 800 samples
min_speech_samples == 2
\* vad.rs 21 silence_samples 4800, in runs of 800 samples
silence_samples == 6
\* usize::MAX, the "all audio consumed" sentinel of voxtral::stop_streaming
USIZE_MAX == 1000000

Threads == 1..MaxSessions
StartCallers == {1, 2}
StopCallers == {1, 2}
NoThread == 0

VARIABLES
    \* lib.rs AppState and settings
    is_recording,               \* AppState.is_recording
    recLock,                    \* start caller holding the is_recording mutex, or 0
    engine,                     \* settings.transcription.engine
    emitter,                    \* AppState.audio_level_emitter_running
    \* capture.rs statics
    AUDIO_BUFFER, WHISPER_BUFFER, AUDIO_THREAD, IS_STOPPING,
    RESAMPLER_STATE, CURRENT_AUDIO_LEVEL,
    cap,                        \* the capture-owner threads
    rs,                         \* the ResamplerState each thread created
    \* whisper.rs statics and monitor threads
    STREAMING_RESULTS, STREAMING_CONSUMED, VAD_MONITOR, mon,
    \* voxtral.rs statics and streaming threads
    VOXTRAL_STREAMING_RESULTS, VOXTRAL_STREAMING_STOP,
    VOXTRAL_STOP_BUFFER_LEN, VOXTRAL_STREAM_HANDLE, vox,
    \* the commands in flight
    startc, stopc,
    \* counters that bound the model, and the limits of the specification
    nSessions, frames, nAdmin, lim,
    \* the text assembly at the end of stop_recording
    txt,
    \* a window of audio with the detector's answer, and what is made of it
    vad,
    \* the model files, MODEL_CACHE, STATE_CACHE and the calls that use them
    models

capVars == <<AUDIO_BUFFER, WHISPER_BUFFER, AUDIO_THREAD, IS_STOPPING,
             RESAMPLER_STATE, CURRENT_AUDIO_LEVEL, cap, rs>>
whisperVars == <<STREAMING_RESULTS, STREAMING_CONSUMED, VAD_MONITOR, mon>>
voxVars == <<VOXTRAL_STREAMING_RESULTS, VOXTRAL_STREAMING_STOP,
             VOXTRAL_STOP_BUFFER_LEN, VOXTRAL_STREAM_HANDLE, vox>>
appVars == <<is_recording, recLock, engine, emitter>>
cntVars == <<nSessions, frames, nAdmin, lim, txt, vad, models>>
vars == <<appVars, capVars, whisperVars, voxVars, startc, stopc, cntVars>>

\* ---------------------------------------------------------------- helpers
Drop(s, n) == IF n >= Len(s) THEN <<>> ELSE SubSeq(s, n + 1, Len(s))
Take(s, n) == IF n >= Len(s) THEN s ELSE SubSeq(s, 1, n)
Range(s) == {s[i] : i \in 1..Len(s)}
Min(a, b) == IF a < b THEN a ELSE b

\* -------------------------------------------------------- initial records
CapNone == [st |-> "none", sig |-> "none", path |-> "none"]
RsNone == [acc |-> <<>>, failed |-> FALSE]
\* err: history, the end of the last utterance for which run_whisper returned
\* an error (0: none), recorded in the runs that ask for it.
MonNone == [st |-> "none", sig |-> "none", abs_position |-> 0,
            pending_audio |-> <<>>, pending_start |-> 0,
            seg_start |-> 0, seg_end |-> 0, err |-> 0]
MonDone == [MonNone EXCEPT !.st = "done"]
\* fed, finished: history of the stream (the samples feed() accepted, in order,
\* and whether finish() was called), recorded in the runs that ask for it.
VoxNone == [st |-> "none", abs_position |-> 0, pending |-> <<>>,
            fed |-> <<>>, finished |-> FALSE]
VoxDone == [VoxNone EXCEPT !.st = "done"]
StartIdle == [pc |-> "idle", t |-> NoThread, res |-> "none"]
NoAudio == [samples |-> <<>>, some |-> FALSE, whisper_samples |-> <<>>]
TxtNone == [pc |-> "none", use_voxtral |-> FALSE, consumed_samples |-> 0,
            streaming_results |-> <<>>, samples |-> FALSE, tail_text |-> <<>>,
            streaming_prefix |-> [some |-> FALSE, v |-> <<>>], raw_text |-> <<>>]
\* whisper.rs 21-38: MODEL_CACHE (context, model_size, model_path) and
\* STATE_CACHE (state), empty; files: the model files on disk; pre, run, del:
\* the preload_model, run_whisper and delete_model call in flight; bg: the
\* state-creating threads run_whisper has spawned.  A context is [id, from],
\* from being the model size whose file it was loaded from.
NoContext == [id |-> 0, from |-> ""]
NoState == [model_size |-> "", ctx |-> 0]
CallIdle == [pc |-> "idle", size |-> "", ctx |-> 0, res |-> "none"]
ModelsNone == [files |-> {}, context |-> NoContext, model_size |-> "", model_path |-> <<>>,
               state |-> NoState, loads |-> 0, calls |-> 0,
               pre |-> CallIdle, run |-> CallIdle, del |-> CallIdle, bg |-> {}]
\* vad.rs 35-42 VoiceActivityDetector::new
DetectorNew == [is_speaking |-> FALSE, silence_count |-> 0, speech_count |-> 0]
\* res: how many samples of the window make one block of 8000 samples;
\* chunks, loud, op, loud_since, quiet_run: history of the energy detector: the
\* calls made, whether a chunk was above the threshold, the last call, the
\* samples above the threshold since construction, reset or the last end of
\* speech, and the samples below it since the last chunk above it.
VadNone == [pc |-> "none", res |-> 1, window |-> <<>>, seg_list |-> <<>>, vad_ok |-> FALSE,
            submit |-> FALSE, speech_samples |-> <<>>, clear_to_sample |-> 0,
            filtered |-> <<>>, detector |-> DetectorNew, chunks |-> 0, loud |-> FALSE,
            op |-> "new", loud_since |-> 0, quiet_run |-> 0]
StopIdle == [pc |-> "idle", use_voxtral |-> FALSE, h |-> NoThread,
             results |-> <<>>, consumed |-> 0, audio |-> NoAudio, res |-> "none"]

Idle ==
    /\ is_recording = FALSE
    /\ recLock = 0
    /\ engine \in {"whisper", "voxtral"}
    /\ emitter = FALSE
    /\ AUDIO_BUFFER = <<>>
    /\ WHISPER_BUFFER = <<>>
    /\ AUDIO_THREAD = NoThread
    /\ IS_STOPPING = FALSE
    /\ RESAMPLER_STATE = NoThread
    /\ CURRENT_AUDIO_LEVEL = 0
    /\ cap = [t \in Threads |-> CapNone]
    /\ rs = [t \in Threads |-> RsNone]
    /\ STREAMING_RESULTS = <<>>
    /\ STREAMING_CONSUMED = 0
    /\ VAD_MONITOR = NoThread
    /\ mon = [t \in Threads |-> MonNone]
    /\ VOXTRAL_STREAMING_RESULTS = <<>>
    /\ VOXTRAL_STREAMING_STOP = FALSE
    /\ VOXTRAL_STOP_BUFFER_LEN = 0
    /\ VOXTRAL_STREAM_HANDLE = NoThread
    /\ vox = [t \in Threads |-> VoxNone]
    /\ startc = [c \in StartCallers |-> StartIdle]
    /\ stopc = [c \in StopCallers |-> StopIdle]
    /\ nSessions = 0
    /\ frames = 0
    /\ nAdmin = 0

\* Two sessions, one reset or settings update, commands called again and again.
Init ==
    /\ Idle
    /\ lim = [sessions |-> MaxSessions, frames |-> MaxFrames, admin |-> MaxAdmin,
              once |-> FALSE, history |-> FALSE]
    /\ txt = TxtNone
    /\ vad = VadNone
    /\ models = ModelsNone

\* A thread that reads snapshots of WHISPER_BUFFER is alive: the only holders
\* of its lock that a callback's try_lock can meet during a session.
ReaderLive ==
    \/ \E t \in Threads : mon[t].st \in {"loop", "utter", "infer", "advance"}
    \/ \E t \in Threads : vox[t].st \in {"init", "loop", "final"}

\* snapshot_whisper_buffer handing out the whole buffer, whatever the cursor
snapshot_whisper_buffer_whole(from) ==
    [new |-> WHISPER_BUFFER, len |-> Len(WHISPER_BUFFER)]

\* capture.rs snapshot_whisper_buffer(from): (new samples, current length)
snapshot_whisper_buffer(from) ==
    [new |-> IF Len(WHISPER_BUFFER) > from THEN Drop(WHISPER_BUFFER, from) ELSE <<>>,
     len |-> Len(WHISPER_BUFFER)]
\* ------------------------------------------------- capture.rs: the thread
\* start_capture 172-235: the spawned thread acquires the device, stores the
\* device rate and creates the real-time resampler when the rate is not 16 kHz.
\* o = "fail": no device / config error (the thread logs and ends);
\* o = "16k": downmix only;  o = "rs": resampler created and stored in
\* RESAMPLER_STATE;  o = "norsmp": resampler construction failed.
CaptureThreadInit(t) ==
    /\ cap[t].st = "spawned"
    /\ \E o \in {"fail", "16k", "rs", "norsmp"} :
         /\ cap' = [cap EXCEPT ![t].st = IF o = "fail" THEN "done" ELSE "playing",
                               ![t].path = o]
         /\ IF o = "rs"
            THEN /\ rs' = [rs EXCEPT ![t] = RsNone]
                 /\ RESAMPLER_STATE' = t
            ELSE UNCHANGED <<rs, RESAMPLER_STATE>>
    /\ UNCHANGED <<appVars, AUDIO_BUFFER, WHISPER_BUFFER, AUDIO_THREAD, IS_STOPPING,
                   CURRENT_AUDIO_LEVEL, whisperVars, voxVars, startc, stopc, cntVars>>

\* drain_resampler that empties the accumulator instead of draining full chunks.
DrainResultClearsAccumulator(acc, f) ==
    LET n == Len(acc) \div chunk_size
        ok == IF f = 0 THEN n ELSE f - 1
    IN [out |-> Take(acc, ok * chunk_size),
        acc |-> <<>>,
        success |-> (f = 0)]

\* drain_resampler 114-133 on accumulator acc: f = 0 when every full chunk is
\* processed, f = j when process() fails on the j-th chunk (already drained
\* from the accumulator, and lost).
DrainResult(acc, f) ==
    LET n == Len(acc) \div chunk_size
        ok == IF f = 0 THEN n ELSE f - 1
        gone == IF f = 0 THEN n ELSE f
    IN [out |-> Take(acc, ok * chunk_size),
        acc |-> Drop(acc, gone * chunk_size),
        success |-> (f = 0)]

\* start_capture 255-314: one invocation of the CPAL input callback of thread t.
\* locked: the WHISPER_BUFFER try_lock met a snapshot reader holding the lock.
CallbackNormalized(t, data, locked) ==
    CASE cap[t].path = "rs" ->
           IF rs[t].failed
           THEN UNCHANGED <<rs, WHISPER_BUFFER>>
           ELSE LET acc1 == Append(rs[t].acc, data) IN
                IF locked
                THEN /\ rs' = [rs EXCEPT ![t].acc = acc1]
                     /\ UNCHANGED WHISPER_BUFFER
                ELSE \E f \in 0..(Len(acc1) \div chunk_size) :
                       LET d == DrainResult(acc1, f) IN
                       /\ rs' = [rs EXCEPT ![t].acc = d.acc,
                                           ![t].failed = ~d.success]
                       /\ WHISPER_BUFFER' = WHISPER_BUFFER \o d.out
      [] cap[t].path = "16k" ->
           /\ WHISPER_BUFFER' = IF locked THEN WHISPER_BUFFER
                                ELSE Append(WHISPER_BUFFER, data)
           /\ UNCHANGED rs
      [] OTHER -> UNCHANGED <<rs, WHISPER_BUFFER>>

Callback(t) ==
    /\ cap[t].st = "playing"
    /\ frames < lim.frames
    /\ LET data == <<t, frames + 1>> IN
       /\ frames' = frames + 1
       /\ CURRENT_AUDIO_LEVEL' = 1
       /\ AUDIO_BUFFER' = Append(AUDIO_BUFFER, data)
       /\ \E locked \in (IF ReaderLive THEN BOOLEAN ELSE {FALSE}) :
            CallbackNormalized(t, data, locked)
    /\ UNCHANGED <<appVars, AUDIO_THREAD, IS_STOPPING, RESAMPLER_STATE, cap,
                   whisperVars, voxVars, startc, stopc, nSessions, nAdmin, lim, txt, vad, models>>

\* start_capture 330-347: stop_rx.recv() returns on the stop signal or when the
\* sender was dropped with the handle; the stream is dropped, no more callbacks.
CaptureThreadExit(t) ==
    /\ cap[t].st = "playing"
    /\ cap[t].sig \in {"stop", "dropped"}
    /\ cap' = [cap EXCEPT ![t].st = "done"]
    /\ UNCHANGED <<appVars, AUDIO_BUFFER, WHISPER_BUFFER, AUDIO_THREAD, IS_STOPPING,
                   RESAMPLER_STATE, CURRENT_AUDIO_LEVEL, rs,
                   whisperVars, voxVars, startc, stopc, cntVars>>

\* ------------------------------------------------- lib.rs: start_recording
\* A start_recording command is invoked; it first has to take the
\* is_recording mutex, which it then holds until it returns (lib.rs 146).
StartCall(c) ==
    /\ startc[c].pc = "idle"
    /\ lim.once => startc[c].res = "none"
    /\ startc' = [startc EXCEPT ![c] = [pc |-> "wait", t |-> NoThread, res |-> "none"]]
    /\ UNCHANGED <<appVars, capVars, whisperVars, voxVars, stopc, cntVars>>

\* start_recording without the is_recording check.
StartBeginUnchecked(c) ==
    /\ startc[c].pc = "wait"
    /\ recLock = 0
    /\ nSessions < lim.sessions
    /\ is_recording' = TRUE
    /\ recLock' = c
    /\ startc' = [startc EXCEPT ![c].pc = "chkStopping"]
    /\ UNCHANGED <<engine, emitter, capVars, whisperVars, voxVars, stopc, cntVars>>
\* lib.rs 146-151: lock, reject when already recording, else set the flag.
StartBegin(c) ==
    /\ startc[c].pc = "wait"
    /\ recLock = 0
    /\ IF is_recording
       THEN /\ startc' = [startc EXCEPT ![c].pc = "idle", ![c].res = "AlreadyRecording"]
            /\ UNCHANGED <<is_recording, recLock>>
       ELSE /\ nSessions < lim.sessions
            /\ is_recording' = TRUE
            /\ recLock' = c
            /\ startc' = [startc EXCEPT ![c].pc = "chkStopping"]
    /\ UNCHANGED <<engine, emitter, capVars, whisperVars, voxVars, stopc, cntVars>>

\* lib.rs 155-160: start_capture returned Err: reset the flag, return the error.
StartFails(c, err) ==
    /\ is_recording' = FALSE
    /\ recLock' = 0
    /\ startc' = [startc EXCEPT ![c].pc = "idle", ![c].res = err]

\* start_capture without the IS_STOPPING check.
StartCheckStoppingSkipped(c) ==
    /\ startc[c].pc = "chkStopping"
    /\ startc' = [startc EXCEPT ![c].pc = "chkThread"]
    /\ UNCHANGED <<appVars, capVars, whisperVars, voxVars, stopc, cntVars>>
\* capture.rs 138-142: the IS_STOPPING check of start_capture.
StartCheckStopping(c) ==
    /\ startc[c].pc = "chkStopping"
    /\ IF IS_STOPPING
       THEN StartFails(c, "AlreadyRunning")
       ELSE /\ startc' = [startc EXCEPT ![c].pc = "chkThread"]
            /\ UNCHANGED <<is_recording, recLock>>
    /\ UNCHANGED <<engine, emitter, capVars, whisperVars, voxVars, stopc, cntVars>>

\* capture.rs 144-148: the AUDIO_THREAD check of start_capture.
StartCheckThread(c) ==
    /\ startc[c].pc = "chkThread"
    /\ IF AUDIO_THREAD # NoThread
       THEN StartFails(c, "AlreadyRunning")
       ELSE /\ startc' = [startc EXCEPT ![c].pc = "clear"]
            /\ UNCHANGED <<is_recording, recLock>>
    /\ UNCHANGED <<engine, emitter, capVars, whisperVars, voxVars, stopc, cntVars>>

\* capture.rs 150-164: clear both buffers and the resampler slot.
StartClear(c) ==
    /\ startc[c].pc = "clear"
    /\ AUDIO_BUFFER' = <<>>
    /\ WHISPER_BUFFER' = <<>>
    /\ RESAMPLER_STATE' = NoThread
    /\ startc' = [startc EXCEPT ![c].pc = "spawn"]
    /\ UNCHANGED <<appVars, AUDIO_THREAD, IS_STOPPING, CURRENT_AUDIO_LEVEL,
                   cap, rs, whisperVars, voxVars, stopc, cntVars>>

\* capture.rs 168-172, 349-354: spawn the capture thread, register its handle.
StartSpawn(c) ==
    /\ startc[c].pc = "spawn"
    /\ LET t == nSessions + 1 IN
       /\ nSessions' = t
       /\ cap' = [cap EXCEPT ![t] = [CapNone EXCEPT !.st = "spawned"]]
       /\ AUDIO_THREAD' = t
       /\ startc' = [startc EXCEPT ![c].pc = "streaming", ![c].t = t]
    /\ UNCHANGED <<appVars, AUDIO_BUFFER, WHISPER_BUFFER, IS_STOPPING, RESAMPLER_STATE,
                   CURRENT_AUDIO_LEVEL, rs, whisperVars, voxVars, stopc,
                   frames, nAdmin, lim, txt, vad, models>>

\* whisper.rs 610-643 start_streaming: clear the accumulator; when the VAD and
\* Whisper model files are present, spawn the monitor and store its handle
\* (a handle already in VAD_MONITOR is dropped, its thread is not signalled).
WhisperStartStreaming(t, present) ==
    /\ STREAMING_RESULTS' = <<>>
    /\ STREAMING_CONSUMED' = 0
    /\ IF present
       THEN /\ mon' = [mon EXCEPT ![t] = [MonNone EXCEPT !.st = "loop"]]
            /\ VAD_MONITOR' = t
       ELSE UNCHANGED <<mon, VAD_MONITOR>>

\* voxtral.rs 365-391 start_streaming when the model is downloaded and cached.
VoxtralStartStreaming(t) ==
    /\ VOXTRAL_STREAMING_RESULTS' = <<>>
    /\ VOXTRAL_STREAMING_STOP' = FALSE
    /\ vox' = [vox EXCEPT ![t] = [VoxNone EXCEPT !.st = "init"]]
    /\ VOXTRAL_STREAM_HANDLE' = t
    /\ UNCHANGED VOXTRAL_STOP_BUFFER_LEN

\* lib.rs 163-222: dispatch on the engine setting, start the level emitter.
\* ok: for Voxtral, the model is downloaded and loaded; for Whisper, the VAD
\* and model files exist.
StartStreaming(c) ==
    /\ startc[c].pc = "streaming"
    /\ \E ok \in BOOLEAN :
         IF engine = "voxtral"
         THEN IF ok
              THEN /\ VoxtralStartStreaming(startc[c].t)
                   /\ emitter' = TRUE
                   /\ recLock' = 0
                   /\ startc' = [startc EXCEPT ![c].pc = "idle", ![c].res = "Ok"]
                   /\ UNCHANGED <<is_recording, whisperVars>>
              ELSE \* voxtral.rs 367-376 then lib.rs 174-179
                   /\ VOXTRAL_STREAMING_RESULTS' = <<>>
                   /\ VOXTRAL_STREAMING_STOP' = FALSE
                   /\ StartFails(c, "VoxtralStartFailed")
                   /\ UNCHANGED <<emitter, whisperVars, VOXTRAL_STOP_BUFFER_LEN,
                                  VOXTRAL_STREAM_HANDLE, vox>>
         ELSE /\ WhisperStartStreaming(startc[c].t, ok)
              /\ emitter' = TRUE
              /\ recLock' = 0
              /\ startc' = [startc EXCEPT ![c].pc = "idle", ![c].res = "Ok"]
              /\ UNCHANGED <<is_recording, voxVars>>
    /\ UNCHANGED <<engine, capVars, stopc, cntVars>>
\* ------------------------------ whisper.rs, vad.rs: speech detection
\* A segment is [start, end] in blocks: the source converts the detector's
\* centiseconds to sample indices with (t * 160.0) as usize.
\* whisper.rs 541-546, 783-788: the samples of one segment, the end clamped to
\* the window, nothing when the segment starts at or after the clamped end.
SegmentSamples(samples, seg) ==
    LET end_sample == Min(seg.end, Len(samples))
    IN IF seg.start < end_sample THEN SubSeq(samples, seg.start + 1, end_sample) ELSE <<>>

\* whisper.rs 538-547, 781-789: the samples of all the segments, in order
RECURSIVE ExtractSpeech(_, _)
ExtractSpeech(samples, segs) ==
    IF segs = <<>> THEN <<>>
    ELSE SegmentSamples(samples, Head(segs)) \o ExtractSpeech(samples, Tail(segs))

\* n blocks of 8000 samples, in samples of the window
Blocks(n) == n * vad.res

NoUtterance == [submit |-> FALSE, speech_samples |-> <<>>, clear_to_sample |-> 0]

\* MonitorUtterance without the silence-gap test of whisper.rs 776-779
MonitorUtteranceNoGap(pending_audio, vad_ok, seg_list) ==
    IF Len(pending_audio) < Blocks(MIN_VAD_SAMPLES) THEN NoUtterance
    ELSE IF ~vad_ok THEN NoUtterance
    ELSE IF seg_list = <<>> THEN NoUtterance
    ELSE LET last_seg_end == seg_list[Len(seg_list)].end
             speech_samples == ExtractSpeech(pending_audio, seg_list)
         IN IF Len(speech_samples) < Blocks(MIN_SPEECH_SAMPLES) THEN NoUtterance
            ELSE [submit |-> TRUE, speech_samples |-> speech_samples,
                  clear_to_sample |-> Min(last_seg_end, Len(pending_audio))]

\* whisper.rs 712-802: what one poll of vad_monitor_loop makes of its window.
\* vad_ok = FALSE: the VAD model is missing, its lock or load failed, or the
\* inference failed (718-756): the loop continues.
MonitorUtterance(pending_audio, vad_ok, seg_list) ==
    IF Len(pending_audio) < Blocks(MIN_VAD_SAMPLES) THEN NoUtterance
    ELSE IF ~vad_ok THEN NoUtterance
    ELSE IF seg_list = <<>> THEN NoUtterance
    ELSE LET last_seg_end == seg_list[Len(seg_list)].end
             gap == Len(pending_audio) - last_seg_end
             speech_samples == ExtractSpeech(pending_audio, seg_list)
         IN IF gap < Blocks(MIN_SILENCE_GAP) THEN NoUtterance
            ELSE IF Len(speech_samples) < Blocks(MIN_SPEECH_SAMPLES) THEN NoUtterance
            ELSE [submit |-> TRUE, speech_samples |-> speech_samples,
                  clear_to_sample |-> Min(last_seg_end, Len(pending_audio))]

\* vad_filter_speech that answers with no audio when the detector fails
vad_filter_speech_or_nothing(samples, vad_ok, segments) ==
    IF ~vad_ok THEN <<>>
    ELSE IF segments = <<>> THEN samples
    ELSE LET speech_samples == ExtractSpeech(samples, segments)
         IN IF speech_samples = <<>> THEN samples
            ELSE IF Len(speech_samples) < Blocks(MIN_FILTERED_SAMPLES) THEN samples
            ELSE speech_samples

\* whisper.rs 479-578 vad_filter_speech: the samples handed to run_vad's caller.
\* vad_ok = FALSE: model missing, lock poisoned, load or inference failed.
vad_filter_speech(samples, vad_ok, segments) ==
    IF ~vad_ok THEN samples
    ELSE IF segments = <<>> THEN samples
    ELSE LET speech_samples == ExtractSpeech(samples, segments)
         IN IF speech_samples = <<>> THEN samples
            ELSE IF Len(speech_samples) < Blocks(MIN_FILTERED_SAMPLES) THEN samples
            ELSE speech_samples

\* vad.rs 91-93: the sum of the squares of the samples
RECURSIVE sum_squares(_)
sum_squares(samples) ==
    IF samples = <<>> THEN 0 ELSE Head(samples) * Head(samples) + sum_squares(Tail(samples))

\* vad.rs 47-48, 86-94: calculate_energy(samples) > energy_threshold.  The
\* energy is sqrt(sum_squares / len), 0 for no samples; compared squared.
is_speech(samples) ==
    /\ samples # <<>>
    /\ sum_squares(samples) > energy_threshold * energy_threshold * Len(samples)

\* process that leaves the silence counter alone on a chunk above the threshold
process_keeps_silence(d, samples) ==
    IF is_speech(samples)
    THEN [is_speaking |-> d.is_speaking \/ d.speech_count + Len(samples) >= min_speech_samples,
          silence_count |-> d.silence_count,
          speech_count |-> d.speech_count + Len(samples)]
    ELSE IF d.silence_count + Len(samples) >= silence_samples
    THEN [is_speaking |-> FALSE,
          silence_count |-> d.silence_count + Len(samples),
          speech_count |-> 0]
    ELSE [d EXCEPT !.silence_count = @ + Len(samples)]

\* vad.rs 46-66 VoiceActivityDetector::process: the detector after the chunk
process(d, samples) ==
    IF is_speech(samples)
    THEN [is_speaking |-> d.is_speaking \/ d.speech_count + Len(samples) >= min_speech_samples,
          silence_count |-> 0,
          speech_count |-> d.speech_count + Len(samples)]
    ELSE IF d.silence_count + Len(samples) >= silence_samples
    THEN [is_speaking |-> FALSE,
          silence_count |-> d.silence_count + Len(samples),
          speech_count |-> 0]
    ELSE [d EXCEPT !.silence_count = @ + Len(samples)]

\* ------------------------------------------- whisper.rs: vad_monitor_loop
\* whisper.rs 696-794: one pass of the loop up to the decision that a complete
\* utterance is in the window.  The detector's answer is the environment's:
\* either nothing to transcribe yet (load or inference failure, no segment,
\* gap below MIN_SILENCE_GAP, speech below MIN_SPEECH_SAMPLES), or the speech
\* span [s, e) of the window with at least MIN_SILENCE_GAP behind it.
MonitorPoll(t) ==
    /\ mon[t].st = "loop"
    /\ IF mon[t].sig = "sent"
       THEN mon' = [mon EXCEPT ![t] = MonDone]
       ELSE LET snap == snapshot_whisper_buffer(mon[t].abs_position)
                abs1 == IF snap.new # <<>> THEN snap.len ELSE mon[t].abs_position
                pend1 == mon[t].pending_audio \o snap.new
            IN \/ mon' = [mon EXCEPT ![t].abs_position = abs1,
                                     ![t].pending_audio = pend1]
               \/ \E e \in 1..Len(pend1) : \E s \in 0..(e - 1) :
                       /\ MonitorUtterance(pend1, TRUE, <<[start |-> s, end |-> e]>>).submit
                       /\ mon' = [mon EXCEPT ![t].abs_position = abs1,
                                             ![t].pending_audio = pend1,
                                             ![t].seg_start = s,
                                             ![t].seg_end = e,
                                             ![t].st = "utter"]
    /\ UNCHANGED <<appVars, capVars, STREAMING_RESULTS, STREAMING_CONSUMED, VAD_MONITOR,
                   voxVars, startc, stopc, cntVars>>

\* whisper.rs 804-810: the second stop check, before inference starts.
MonitorCheckStop(t) ==
    /\ mon[t].st = "utter"
    /\ mon' = IF mon[t].sig = "sent"
              THEN [mon EXCEPT ![t] = MonDone]
              ELSE [mon EXCEPT ![t].st = "infer"]
    /\ UNCHANGED <<appVars, capVars, STREAMING_RESULTS, STREAMING_CONSUMED, VAD_MONITOR,
                   voxVars, startc, stopc, cntVars>>

\* MonitorInferDone that appends a fragment for a failed inference too
MonitorInferDonePushesError(t) ==
    /\ mon[t].st = "infer"
    /\ LET m == mon[t]
           speech == SubSeq(m.pending_audio, m.seg_start + 1, m.seg_end)
           clear_to_sample == Min(m.seg_end, Len(m.pending_audio))
       IN \E out \in {"text", "none", "error"} :
            /\ STREAMING_RESULTS' =
                  IF out \in {"text", "error"}
                  THEN Append(STREAMING_RESULTS,
                              [by |-> t, src |-> speech,
                               upto |-> m.pending_start + clear_to_sample])
                  ELSE STREAMING_RESULTS
            /\ mon' = [mon EXCEPT ![t].st = "advance",
                                  ![t].err = IF out = "error" /\ lim.history
                                             THEN m.pending_start + clear_to_sample
                                             ELSE @]
    /\ UNCHANGED <<appVars, capVars, STREAMING_CONSUMED, VAD_MONITOR, voxVars,
                   startc, stopc, cntVars>>

\* whisper.rs 812-840: run_whisper returns text, the empty text or an error; the
\* fragment is pushed when there is text, an error is logged.  upto is the value the cursor gets
\* from the advance that follows.
MonitorInferDone(t) ==
    /\ mon[t].st = "infer"
    /\ LET m == mon[t]
           speech == SubSeq(m.pending_audio, m.seg_start + 1, m.seg_end)
           clear_to_sample == Min(m.seg_end, Len(m.pending_audio))
       IN \E out \in {"text", "none", "error"} :
            /\ STREAMING_RESULTS' =
                  IF out = "text"
                  THEN Append(STREAMING_RESULTS,
                              [by |-> t, src |-> speech,
                               upto |-> m.pending_start + clear_to_sample])
                  ELSE STREAMING_RESULTS
            /\ mon' = [mon EXCEPT ![t].st = "advance",
                                  ![t].err = IF out = "error" /\ lim.history
                                             THEN m.pending_start + clear_to_sample
                                             ELSE @]
    /\ UNCHANGED <<appVars, capVars, STREAMING_CONSUMED, VAD_MONITOR, voxVars,
                   startc, stopc, cntVars>>

\* whisper.rs 842-851: the cursor moves to the end of the last segment,
\* whatever the outcome of the inference, and is published.
MonitorAdvance(t) ==
    /\ mon[t].st = "advance"
    /\ LET m == mon[t]
           clear_to_sample == Min(m.seg_end, Len(m.pending_audio))
       IN /\ mon' = [mon EXCEPT ![t].pending_start = @ + clear_to_sample,
                                ![t].pending_audio = Drop(@, clear_to_sample),
                                ![t].seg_start = 0, ![t].seg_end = 0,
                                ![t].st = "loop"]
          /\ STREAMING_CONSUMED' = m.pending_start + clear_to_sample
    /\ UNCHANGED <<appVars, capVars, STREAMING_RESULTS, VAD_MONITOR, voxVars,
                   startc, stopc, cntVars>>

\* ---------------------------------------- voxtral.rs: voxtral_stream_loop
\* voxtral.rs 454-460: stream_init; on failure the thread returns at once.
VoxtralInit(t) ==
    /\ vox[t].st = "init"
    /\ \E ok \in BOOLEAN : vox' = [vox EXCEPT ![t] = IF ok THEN [@ EXCEPT !.st = "loop"] ELSE VoxDone]
    /\ UNCHANGED <<appVars, capVars, whisperVars, VOXTRAL_STREAMING_RESULTS,
                   VOXTRAL_STREAMING_STOP, VOXTRAL_STOP_BUFFER_LEN,
                   VOXTRAL_STREAM_HANDLE, startc, stopc, cntVars>>

\* The tokens the stream hands out for the audio fed and not yet decoded.
VoxtralTokens(pending, emit) ==
    IF emit /\ pending # <<>>
    THEN <<[by |-> "voxtral", src |-> pending]>>
    ELSE <<>>

\* voxtral.rs 480-539: one pass of the loop: feed what is new, poll tokens.
\* A failed feed ends the loop (voxtral.rs 500-504).
VoxtralLoop(t) ==
    /\ vox[t].st = "loop"
    /\ IF VOXTRAL_STREAMING_STOP
       THEN /\ vox' = [vox EXCEPT ![t].st = "final"]
            /\ UNCHANGED VOXTRAL_STREAMING_RESULTS
       ELSE LET snap == snapshot_whisper_buffer(vox[t].abs_position) IN
            \E feed_ok \in BOOLEAN, emit \in BOOLEAN :
              IF snap.new # <<>> /\ ~feed_ok
              THEN /\ vox' = [vox EXCEPT ![t].st = "final"]
                   /\ UNCHANGED VOXTRAL_STREAMING_RESULTS
              ELSE LET pend1 == vox[t].pending \o snap.new
                       toks == VoxtralTokens(pend1, emit)
                   IN /\ vox' = [vox EXCEPT
                                   ![t].pending = IF toks # <<>> THEN <<>> ELSE pend1,
                                   ![t].abs_position =
                                       IF snap.new # <<>> THEN snap.len ELSE @,
                                   ![t].fed = IF lim.history THEN @ \o snap.new ELSE @]
                      /\ VOXTRAL_STREAMING_RESULTS' = VOXTRAL_STREAMING_RESULTS \o toks
    /\ UNCHANGED <<appVars, capVars, whisperVars, VOXTRAL_STREAMING_STOP,
                   VOXTRAL_STOP_BUFFER_LEN, VOXTRAL_STREAM_HANDLE, startc, stopc, cntVars>>

\* voxtral.rs 547-615: feed what remains up to the stop cutoff, finish, drain.
VoxtralFinal(t) ==
    /\ vox[t].st = "final"
    /\ LET stop_cutoff == VOXTRAL_STOP_BUFFER_LEN
           remaining_limit == IF stop_cutoff > vox[t].abs_position
                              THEN stop_cutoff - vox[t].abs_position ELSE 0
           remaining == Take(snapshot_whisper_buffer(vox[t].abs_position).new,
                             remaining_limit)
       IN \E feed_ok \in BOOLEAN, emit \in BOOLEAN :
            LET pend1 == IF feed_ok THEN vox[t].pending \o remaining ELSE vox[t].pending
                toks == VoxtralTokens(pend1, emit)
            IN /\ (remaining = <<>> => feed_ok)
               /\ vox' = [vox EXCEPT ![t] =
                            IF lim.history
                            THEN [VoxDone EXCEPT
                                    !.fed = IF feed_ok THEN vox[t].fed \o remaining
                                            ELSE vox[t].fed,
                                    !.finished = TRUE]
                            ELSE VoxDone]
               /\ VOXTRAL_STREAMING_RESULTS' = VOXTRAL_STREAMING_RESULTS \o toks
    /\ UNCHANGED <<appVars, capVars, whisperVars, VOXTRAL_STREAMING_STOP,
                   VOXTRAL_STOP_BUFFER_LEN, VOXTRAL_STREAM_HANDLE, startc, stopc, cntVars>>

\* -------------------------------------------------- lib.rs: stop_recording
\* lib.rs 232-248: stop the emitter, reject when not recording, clear the flag.
StopBegin(c) ==
    /\ stopc[c].pc = "idle"
    /\ recLock = 0
    /\ emitter' = FALSE
    /\ IF ~is_recording
       THEN /\ stopc' = [stopc EXCEPT ![c] = [StopIdle EXCEPT !.res = "NotRecording"]]
            /\ UNCHANGED is_recording
       ELSE /\ is_recording' = FALSE
            /\ stopc' = [stopc EXCEPT ![c] = [StopIdle EXCEPT !.pc = "streaming"]]
    /\ UNCHANGED <<recLock, engine, capVars, whisperVars, voxVars, startc, cntVars>>

\* lib.rs 252-266 with whisper.rs 648-651 / voxtral.rs 401-402: read the engine
\* setting; Whisper: take the monitor handle and send the stop signal;
\* Voxtral: snapshot the buffer length as the stop cutoff.
StopStreamingBegin(c) ==
    /\ stopc[c].pc = "streaming"
    /\ IF engine = "voxtral"
       THEN /\ VOXTRAL_STOP_BUFFER_LEN' = snapshot_whisper_buffer(0).len
            /\ stopc' = [stopc EXCEPT ![c].use_voxtral = TRUE, ![c].pc = "vsignal"]
            /\ UNCHANGED <<whisperVars, VOXTRAL_STREAMING_RESULTS,
                           VOXTRAL_STREAMING_STOP, VOXTRAL_STREAM_HANDLE, vox>>
       ELSE /\ VAD_MONITOR' = NoThread
            /\ mon' = IF VAD_MONITOR # NoThread
                      THEN [mon EXCEPT ![VAD_MONITOR].sig = "sent"]
                      ELSE mon
            /\ stopc' = [stopc EXCEPT ![c].use_voxtral = FALSE, ![c].h = VAD_MONITOR,
                                      ![c].pc = "wjoin"]
            /\ UNCHANGED <<STREAMING_RESULTS, STREAMING_CONSUMED, voxVars>>
    /\ UNCHANGED <<appVars, capVars, startc, cntVars>>

\* voxtral.rs 405-416: raise the stop flag and take the thread handle.
StopVoxtralSignal(c) ==
    /\ stopc[c].pc = "vsignal"
    /\ VOXTRAL_STREAMING_STOP' = TRUE
    /\ VOXTRAL_STREAM_HANDLE' = NoThread
    /\ stopc' = [stopc EXCEPT ![c].h = VOXTRAL_STREAM_HANDLE, ![c].pc = "vjoin"]
    /\ UNCHANGED <<appVars, capVars, whisperVars, VOXTRAL_STREAMING_RESULTS,
                   VOXTRAL_STOP_BUFFER_LEN, vox, startc, cntVars>>

\* whisper.rs 653-667: join the monitor (when there was a handle), then take
\* the fragments and the consumed offset and reset the offset.
StopWhisperJoin(c) ==
    /\ stopc[c].pc = "wjoin"
    /\ stopc[c].h # NoThread => mon[stopc[c].h].st = "done"
    /\ STREAMING_RESULTS' = <<>>
    /\ STREAMING_CONSUMED' = 0
    /\ stopc' = [stopc EXCEPT ![c].results = STREAMING_RESULTS,
                              ![c].consumed = STREAMING_CONSUMED,
                              ![c].pc = "capture"]
    /\ UNCHANGED <<appVars, capVars, VAD_MONITOR, mon, voxVars, startc, cntVars>>

\* voxtral.rs 417-437: join the streaming thread (when there was a handle),
\* take the results; the sentinel when a thread was running, else 0.
StopVoxtralJoin(c) ==
    /\ stopc[c].pc = "vjoin"
    /\ stopc[c].h # NoThread => vox[stopc[c].h].st = "done"
    /\ VOXTRAL_STREAMING_RESULTS' = <<>>
    /\ stopc' = [stopc EXCEPT ![c].results = VOXTRAL_STREAMING_RESULTS,
                              ![c].consumed = IF stopc[c].h # NoThread
                                              THEN USIZE_MAX ELSE 0,
                              ![c].pc = "capture"]
    /\ UNCHANGED <<appVars, capVars, whisperVars, VOXTRAL_STREAMING_STOP,
                   VOXTRAL_STOP_BUFFER_LEN, VOXTRAL_STREAM_HANDLE, vox, startc, cntVars>>

\* capture.rs 360-362: stop_capture sets the stopping flag.
StopCaptureFlag(c) ==
    /\ stopc[c].pc = "capture"
    /\ IS_STOPPING' = TRUE
    /\ stopc' = [stopc EXCEPT ![c].pc = "take"]
    /\ UNCHANGED <<appVars, AUDIO_BUFFER, WHISPER_BUFFER, AUDIO_THREAD, RESAMPLER_STATE,
                   CURRENT_AUDIO_LEVEL, cap, rs, whisperVars, voxVars,
                   startc, cntVars>>

\* stop_capture that returns NotRunning with the stopping flag left set.
StopCaptureTakeKeepsFlag(c) ==
    /\ stopc[c].pc = "take"
    /\ IF AUDIO_THREAD = NoThread
       THEN /\ stopc' = [stopc EXCEPT ![c] = [StopIdle EXCEPT !.res = "NotRunning"]]
            /\ UNCHANGED <<AUDIO_THREAD, cap>>
       ELSE /\ AUDIO_THREAD' = NoThread
            /\ cap' = [cap EXCEPT ![AUDIO_THREAD].sig = "stop"]
            /\ stopc' = [stopc EXCEPT ![c].h = AUDIO_THREAD, ![c].pc = "cjoin"]
    /\ UNCHANGED <<appVars, AUDIO_BUFFER, WHISPER_BUFFER, RESAMPLER_STATE, IS_STOPPING,
                   CURRENT_AUDIO_LEVEL, rs, whisperVars, voxVars,
                   startc, cntVars>>
\* capture.rs 364-377: take the thread handle; without one clear the flag and
\* return NotRunning (stop_recording returns the error, lib.rs 290-293); with
\* one send the stop signal.
StopCaptureTake(c) ==
    /\ stopc[c].pc = "take"
    /\ IF AUDIO_THREAD = NoThread
       THEN /\ IS_STOPPING' = FALSE
            /\ stopc' = [stopc EXCEPT ![c] = [StopIdle EXCEPT !.res = "NotRunning"]]
            /\ UNCHANGED <<AUDIO_THREAD, cap>>
       ELSE /\ AUDIO_THREAD' = NoThread
            /\ cap' = [cap EXCEPT ![AUDIO_THREAD].sig = "stop"]
            /\ stopc' = [stopc EXCEPT ![c].h = AUDIO_THREAD, ![c].pc = "cjoin"]
            /\ UNCHANGED IS_STOPPING
    /\ UNCHANGED <<appVars, AUDIO_BUFFER, WHISPER_BUFFER, RESAMPLER_STATE,
                   CURRENT_AUDIO_LEVEL, rs, whisperVars, voxVars,
                   startc, cntVars>>

\* stop_capture that flushes and returns the normalized buffer without looking
\* at the failed flag.
FlushResamplerIgnoresFailed(r, flush_ok) ==
    LET wbuf == IF r = NoThread \/ rs[r].acc = <<>> THEN WHISPER_BUFFER
                ELSE IF flush_ok THEN WHISPER_BUFFER \o rs[r].acc
                ELSE <<>>
    IN [some |-> wbuf # <<>>, whisper_samples |-> wbuf, left |-> <<>>]

\* capture.rs 386-446: the normalized buffer stop_capture returns.  r is the
\* resampler state taken from RESAMPLER_STATE (0: none), flush_ok the outcome
\* of process_partial.  Result: [some, whisper_samples, left] with left the
\* content WHISPER_BUFFER keeps.
FlushResampler(r, flush_ok) ==
    IF r # NoThread /\ rs[r].failed
    THEN [some |-> FALSE, whisper_samples |-> <<>>, left |-> WHISPER_BUFFER]
    ELSE LET wbuf == IF r = NoThread \/ rs[r].acc = <<>> THEN WHISPER_BUFFER
                     ELSE IF flush_ok THEN WHISPER_BUFFER \o rs[r].acc
                     ELSE <<>>
         IN [some |-> wbuf # <<>>, whisper_samples |-> wbuf, left |-> <<>>]

\* capture.rs 379-478: join the capture thread, flush the accumulator, reset
\* the level, take the raw buffer.
StopCaptureJoin(c) ==
    /\ stopc[c].pc = "cjoin"
    /\ cap[stopc[c].h].st = "done"
    /\ \E flush_ok \in BOOLEAN :
         LET r == RESAMPLER_STATE
             fl == FlushResampler(r, flush_ok)
         IN /\ (r = NoThread \/ rs[r].failed \/ rs[r].acc = <<>>) => flush_ok
            /\ RESAMPLER_STATE' = NoThread
            /\ WHISPER_BUFFER' = fl.left
            /\ rs' = IF r # NoThread /\ ~rs[r].failed
                     THEN [rs EXCEPT ![r].acc = <<>>]
                     ELSE rs
            /\ stopc' = [stopc EXCEPT
                           ![c].audio = [samples |-> AUDIO_BUFFER, some |-> fl.some,
                                         whisper_samples |-> fl.whisper_samples],
                           ![c].pc = "unflag"]
    /\ CURRENT_AUDIO_LEVEL' = 0
    /\ AUDIO_BUFFER' = <<>>
    /\ UNCHANGED <<appVars, AUDIO_THREAD, IS_STOPPING, cap,
                   whisperVars, voxVars, startc, cntVars>>

\* lib.rs 301-324: keep only the tail of the normalized buffer.
TrimToTail(audio, consumed_samples) ==
    IF consumed_samples > 0 /\ audio.some
    THEN [audio EXCEPT !.whisper_samples =
            IF consumed_samples < Len(audio.whisper_samples)
            THEN Drop(audio.whisper_samples, consumed_samples)
            ELSE <<>>]
    ELSE audio

\* capture.rs 480-490 and lib.rs 301-324: clear the stopping flag, return the
\* AudioData; stop_recording trims it.
StopCaptureReturn(c) ==
    /\ stopc[c].pc = "unflag"
    /\ IS_STOPPING' = FALSE
    /\ stopc' = [stopc EXCEPT ![c].audio = TrimToTail(stopc[c].audio, stopc[c].consumed),
                              ![c].pc = "tail"]
    /\ UNCHANGED <<appVars, AUDIO_BUFFER, WHISPER_BUFFER, AUDIO_THREAD, RESAMPLER_STATE,
                   CURRENT_AUDIO_LEVEL, cap, rs, whisperVars, voxVars,
                   startc, cntVars>>

\* capture.rs 516-573 prepare_for_whisper: the pre-processed samples when there
\* are some, else the raw buffer downmixed and resampled after the fact.
prepare_for_whisper(audio) ==
    IF audio.some /\ audio.whisper_samples # <<>>
    THEN [kind |-> "norm", src |-> audio.whisper_samples]
    ELSE IF audio.samples = <<>>
    THEN [kind |-> "none", src |-> <<>>]
    ELSE [kind |-> "raw", src |-> audio.samples]

\* lib.rs 338-373: what is handed to the one-shot transcription at stop.
TailAudio(use_voxtral, consumed_samples, audio) ==
    IF use_voxtral /\ consumed_samples = USIZE_MAX
    THEN [kind |-> "none", src |-> <<>>]
    ELSE prepare_for_whisper(audio)

\* lib.rs 326-408 with whisper.rs 1000-1056: hand the tail to the one-shot
\* transcription.  The Whisper path returns early when the model file is
\* missing or the tail is empty, else it sends a job to the dedicated
\* transcription thread and awaits the result; every other path transcribes
\* inside the command.  The text that results changes no state of the pipeline.
StopTranscribe(c) ==
    /\ stopc[c].pc = "tail"
    /\ LET tail == TailAudio(stopc[c].use_voxtral, stopc[c].consumed, stopc[c].audio)
       IN \E model_exists \in BOOLEAN :
            stopc' = [stopc EXCEPT ![c] =
                        IF ~stopc[c].use_voxtral /\ ~model_exists
                        THEN [StopIdle EXCEPT !.res = "ModelNotFound"]
                        ELSE IF ~stopc[c].use_voxtral /\ tail.kind # "none"
                        THEN [StopIdle EXCEPT !.pc = "queued"]
                        ELSE [StopIdle EXCEPT !.res = "Returned"]]
    /\ UNCHANGED <<appVars, capVars, whisperVars, voxVars, startc, cntVars>>

\* whisper.rs 967-980 TRANSCRIPTION_TX: the dedicated thread takes the job,
\* filters it through vad_filter_speech, which never returns an empty buffer
\* for the non-empty tail it is given, and calls run_whisper.
TranscriptionWorkerStart(c) ==
    /\ stopc[c].pc = "queued"
    /\ stopc' = [stopc EXCEPT ![c] = [StopIdle EXCEPT !.pc = "run_whisper"]]
    /\ UNCHANGED <<appVars, capVars, whisperVars, voxVars, startc, cntVars>>

\* whisper.rs 981-989: run_whisper returns, the result is sent back and
\* stop_recording returns.
TranscriptionWorkerDone(c) ==
    /\ stopc[c].pc = "run_whisper"
    /\ stopc' = [stopc EXCEPT ![c] = [StopIdle EXCEPT !.res = "Returned"]]
    /\ UNCHANGED <<appVars, capVars, whisperVars, voxVars, startc, cntVars>>

\* ------------------------------------- lib.rs: reset and update_settings
\* capture.rs 82-91 reset_state: the dropped handle drops the stop sender, so
\* recv() in the capture thread returns; the thread is not joined.
reset_state ==
    /\ IS_STOPPING' = FALSE
    /\ AUDIO_THREAD' = NoThread
    /\ cap' = IF AUDIO_THREAD # NoThread
              THEN [cap EXCEPT ![AUDIO_THREAD].sig = "dropped"]
              ELSE cap
    /\ CURRENT_AUDIO_LEVEL' = 0
    /\ AUDIO_BUFFER' = <<>>
    /\ WHISPER_BUFFER' = <<>>
    /\ RESAMPLER_STATE' = NoThread
    /\ UNCHANGED rs

\* lib.rs 418-433 reset_recording_state
reset_recording_state ==
    /\ recLock = 0
    /\ nAdmin < lim.admin
    /\ nAdmin' = nAdmin + 1
    /\ is_recording' = FALSE
    /\ emitter' = FALSE
    /\ reset_state
    /\ UNCHANGED <<recLock, engine, whisperVars, voxVars, startc, stopc,
                   nSessions, frames, lim, txt, vad, models>>

\* lib.rs 442-473 update_settings: the engine setting is replaced.
update_settings ==
    /\ nAdmin < lim.admin
    /\ nAdmin' = nAdmin + 1
    /\ engine' = IF engine = "whisper" THEN "voxtral" ELSE "whisper"
    /\ UNCHANGED <<is_recording, recLock, emitter, capVars, whisperVars, voxVars,
                   startc, stopc, nSessions, frames, lim, txt, vad, models>>

\* ------------------------------------------- lib.rs: the final text
\* Text is a sequence of characters.  Texts are the non-empty texts an
\* inference can return; a Voxtral token may carry its own leading space.
Texts == {<<"a">>, <<"b">>, <<" ", "c">>}
None == [some |-> FALSE, v |-> <<>>]
Some(v) == [some |-> TRUE, v |-> v]
unwrap_or_default(o) == IF o.some THEN o.v ELSE <<>>

\* Vec<String>::join(sep)
RECURSIVE join(_, _)
join(v, sep) ==
    IF v = <<>> THEN <<>>
    ELSE IF Len(v) = 1 THEN v[1]
    ELSE v[1] \o sep \o join(Tail(v), sep)

\* The prefix with the separator left out for both engines.
streaming_prefix_unspaced(streaming_results, use_voxtral) ==
    IF streaming_results = <<>> THEN None ELSE Some(join(streaming_results, <<>>))
\* lib.rs 268-286: None without fragments, else the fragments joined.
streaming_prefix(streaming_results, use_voxtral) ==
    IF streaming_results = <<>> THEN None
    ELSE Some(join(streaming_results, IF use_voxtral THEN <<>> ELSE <<" ">>))

\* whisper.rs 1000-1056 and voxtral.rs 285-334 transcribe: samples says that
\* prepare_for_whisper returned audio, tail_text is what the inference made of it.
transcribe(samples, tail_text, prefix) ==
    IF ~samples THEN unwrap_or_default(prefix)
    ELSE IF prefix.some /\ prefix.v # <<>>
    THEN IF tail_text = <<>> THEN prefix.v ELSE prefix.v \o <<" ">> \o tail_text
    ELSE tail_text

\* lib.rs 342-373
raw_text(use_voxtral, consumed_samples, prefix, samples, tail_text) ==
    IF use_voxtral /\ consumed_samples = USIZE_MAX
    THEN unwrap_or_default(prefix)
    ELSE transcribe(samples, tail_text, prefix)

RECURSIVE SeqsUpTo(_, _)
SeqsUpTo(S, n) ==
    IF n = 0 THEN {<<>>}
    ELSE SeqsUpTo(S, n - 1) \cup {Append(q, x) : q \in SeqsUpTo(S, n - 1), x \in S}

\* What stop_streaming and the tail inference can hand to the text assembly.
TextInputs ==
    {[TxtNone EXCEPT !.pc = "collected", !.use_voxtral = u, !.consumed_samples = k,
                     !.streaming_results = r, !.samples = a, !.tail_text = w] :
        u \in BOOLEAN, k \in {0, USIZE_MAX}, r \in SeqsUpTo(Texts, MaxFragments),
        a \in BOOLEAN, w \in Texts \cup {<<>>}}

TextJoin ==
    /\ txt.pc = "collected"
    /\ txt' = [txt EXCEPT !.streaming_prefix =
                              streaming_prefix(txt.streaming_results, txt.use_voxtral),
                          !.pc = "joined"]
    /\ UNCHANGED <<appVars, capVars, whisperVars, voxVars, startc, stopc,
                   nSessions, frames, nAdmin, lim, vad, models>>

TextTranscribe ==
    /\ txt.pc = "joined"
    /\ txt' = [txt EXCEPT !.raw_text = raw_text(txt.use_voxtral, txt.consumed_samples,
                                                txt.streaming_prefix, txt.samples,
                                                txt.tail_text),
                          !.pc = "done"]
    /\ UNCHANGED <<appVars, capVars, whisperVars, voxVars, startc, stopc,
                   nSessions, frames, nAdmin, lim, vad, models>>

\* ------------------------------------ whisper.rs: the hallucination guard
\* Text is a sequence of characters.
\* whisper.rs 1083-1096
HALLUCINATION_PHRASES ==
    {<<"t", "h", "a", "n", "k", " ", "y", "o", "u">>,
     <<"t", "h", "a", "n", "k", "s", " ", "f", "o", "r", " ", "w", "a", "t", "c", "h", "i", "n", "g">>,
     <<"t", "h", "a", "n", "k", "s", " ", "f", "o", "r", " ", "l", "i", "s", "t", "e", "n", "i", "n", "g">>,
     <<"t", "h", "a", "n", "k", " ", "y", "o", "u", " ", "f", "o", "r", " ", "w", "a", "t", "c", "h", "i", "n", "g">>,
     <<"t", "h", "a", "n", "k", " ", "y", "o", "u", " ", "f", "o", "r", " ", "l", "i", "s", "t", "e", "n", "i", "n", "g">>,
     <<"p", "l", "e", "a", "s", "e", " ", "s", "u", "b", "s", "c", "r", "i", "b", "e">>,
     <<"l", "i", "k", "e", " ", "a", "n", "d", " ", "s", "u", "b", "s", "c", "r", "i", "b", "e">>,
     <<"s", "u", "b", "t", "i", "t", "l", "e", "s", " ", "b", "y">>,
     <<"t", "r", "a", "n", "s", "c", "r", "i", "b", "e", "d", " ", "b", "y">>,
     <<"c", "o", "p", "y", "r", "i", "g", "h", "t">>,
     <<"t", "h", "e", " ", "e", "n", "d">>,
     <<"y", "o", "u">>}

LowerCase == <<"a", "b", "c", "d", "e", "f", "g", "h", "i", "j", "k", "l", "m", "n", "o", "p", "q", "r", "s", "t", "u", "v", "w", "x", "y", "z">>
UpperCase == <<"A", "B", "C", "D", "E", "F", "G", "H", "I", "J", "K", "L", "M", "N", "O", "P", "Q", "R", "S", "T", "U", "V", "W", "X", "Y", "Z">>
\* char::is_whitespace, for the white space the decoder produces
WhiteSpace == {" ", "\n"}

\* str::to_lowercase on one character.  Letters are modelled as ASCII.
to_lowercase_char(c) ==
    IF \E i \in 1..Len(UpperCase) : UpperCase[i] = c
    THEN LowerCase[CHOOSE i \in 1..Len(UpperCase) : UpperCase[i] = c]
    ELSE c
to_uppercase_char(c) ==
    IF \E i \in 1..Len(LowerCase) : LowerCase[i] = c
    THEN UpperCase[CHOOSE i \in 1..Len(LowerCase) : LowerCase[i] = c]
    ELSE c
to_lowercase(text) == [i \in 1..Len(text) |-> to_lowercase_char(text[i])]
to_uppercase(text) == [i \in 1..Len(text) |-> to_uppercase_char(text[i])]

\* str::trim: leading and trailing white space removed
RECURSIVE trim_start(_)
trim_start(text) ==
    IF text # <<>> /\ Head(text) \in WhiteSpace THEN trim_start(Tail(text)) ELSE text
RECURSIVE trim_end(_)
trim_end(text) ==
    IF text # <<>> /\ text[Len(text)] \in WhiteSpace
    THEN trim_end(SubSeq(text, 1, Len(text) - 1)) ELSE text
trim(text) == trim_end(trim_start(text))

\* is_likely_hallucination comparing the text as it is, without to_lowercase
is_likely_hallucination_exact(text) ==
    LET normalized == trim(text)
    IN /\ normalized # <<>>
       /\ \E phrase \in HALLUCINATION_PHRASES :
            \/ normalized = phrase
            \/ normalized = phrase \o <<".">>
            \/ normalized = phrase \o <<"!">>

\* whisper.rs 1100-1116
is_likely_hallucination(text) ==
    LET normalized == to_lowercase(trim(text))
    IN /\ normalized # <<>>
       /\ \E phrase \in HALLUCINATION_PHRASES :
            \/ normalized = phrase
            \/ normalized = phrase \o <<".">>
            \/ normalized = phrase \o <<"!">>

\* whisper.rs 1347-1381, 1383-1423: what run_whisper returns for the text the
\* segments of a successful inference add up to
run_whisper_text(text) ==
    LET result == trim(text)
    IN IF is_likely_hallucination(result) THEN <<>> ELSE result

\* whisper.rs 1336-1345: the concatenated segment texts of one inference:
\* every short text over a few characters, and every stock phrase in three
\* casings, with or without white space around it and punctuation behind it
InferenceTexts ==
    SeqsUpTo({"y", "o", "u", "Y", " ", ".", "!"}, MaxShortText) \cup
    {lead \o body \o punct \o trail :
        lead \in {<<>>, <<" ">>, <<"\n", " ">>},
        body \in UNION {{phrase, to_uppercase(phrase),
                         <<to_uppercase_char(Head(phrase))>> \o Tail(phrase)} :
                           phrase \in HALLUCINATION_PHRASES},
        punct \in {<<>>, <<".">>, <<"!">>, <<"?">>, <<".", ".">>, <<" ", "s", "o">>},
        trail \in {<<>>, <<" ">>, <<"\n">>}}

\* whisper.rs 1347-1423: run_whisper returns
RunWhisperReturn ==
    /\ txt.pc = "inferred"
    /\ txt' = [txt EXCEPT !.pc = "returned", !.result = run_whisper_text(txt.text)]
    /\ UNCHANGED <<appVars, capVars, whisperVars, voxVars, startc, stopc,
                   nSessions, frames, nAdmin, lim, vad, models>>

\* ------------------------------------------------ text/mod.rs: process_text
\* char::is_alphabetic, char::is_numeric, char::is_alphanumeric on the
\* characters of the model: ASCII letters and digits
is_alphabetic(c) == c \in Range(LowerCase) \cup Range(UpperCase)
is_numeric(c) == c \in {"0", "1", "2", "3", "4", "5", "6", "7", "8", "9"}
is_alphanumeric(c) == is_alphabetic(c) \/ is_numeric(c)

\* text/mod.rs 17-34: the loop of capitalize_sentences over the rest of the
\* text, capitalize_next being the flag it carries
RECURSIVE capitalize_rest(_, _)
capitalize_rest(text, capitalize_next) ==
    IF text = <<>> THEN <<>>
    ELSE LET c == Head(text)
             upper == capitalize_next /\ is_alphabetic(c)
             after_push == IF upper THEN FALSE ELSE capitalize_next
             after_punct == IF c \in {".", "!", "?"} THEN TRUE ELSE after_push
             after_alnum == IF is_alphanumeric(c) /\ after_punct /\ c \notin WhiteSpace
                            THEN FALSE ELSE after_punct
         IN <<IF upper THEN to_uppercase_char(c) ELSE c>>
              \o capitalize_rest(Tail(text), after_alnum)

\* text/mod.rs 13-37
capitalize_sentences(text) == capitalize_rest(text, TRUE)

\* text/mod.rs 4-10
process_text(text, auto_capitalize) ==
    IF ~auto_capitalize THEN text ELSE capitalize_sentences(text)

\* lib.rs 386: stop_recording passes the raw text through process_text
ProcessText ==
    /\ txt.pc = "raw"
    /\ txt' = [txt EXCEPT !.pc = "processed",
                          !.result = process_text(txt.text, txt.auto_capitalize)]
    /\ UNCHANGED <<appVars, capVars, whisperVars, voxVars, startc, stopc,
                   nSessions, frames, nAdmin, lim, vad, models>>

\* ------------------------------------------ whisper.rs: the model cache
ModelSizes == {"base", "small"}
get_model_path(size) == <<"models", size>>

noModelVars == <<appVars, capVars, whisperVars, voxVars, startc, stopc,
                 nSessions, frames, nAdmin, lim, txt, vad>>

\* whisper.rs 880-883, 1136-1138: the cache holds a context for this model
Cached(size) ==
    /\ models.context # NoContext
    /\ models.model_size = size
    /\ models.model_path = get_model_path(size)

\* whisper.rs 864-872: preload_model is called; without the model file it
\* returns ModelNotFound, before it looks at the cache.
PreloadCall(size) ==
    /\ models.pre.pc = "idle"
    /\ models.calls < MaxCalls
    /\ models' = [models EXCEPT
                    !.calls = @ + 1,
                    !.pre = IF get_model_path(size) \in models.files
                            THEN [CallIdle EXCEPT !.pc = "lock", !.size = size]
                            ELSE [CallIdle EXCEPT !.size = size, !.res = "ModelNotFound"]]
    /\ UNCHANGED noModelVars

\* whisper.rs 876-938: under the MODEL_CACHE lock, return Ok when the model is
\* cached; else load the context (906-910) and create a state (921-929), each
\* of which can fail and return an error, and put the state into STATE_CACHE.
PreloadLocked ==
    /\ models.pre.pc = "lock"
    /\ LET size == models.pre.size
           id == models.loads + 1
       IN IF Cached(size)
          THEN models' = [models EXCEPT !.pre = [CallIdle EXCEPT !.size = size, !.res = "Ok"]]
          ELSE \E o \in {"ok", "load_failed", "state_failed"} :
                 /\ o # "load_failed" => (models.loads < MaxLoads
                                          /\ get_model_path(size) \in models.files)
                 /\ models' =
                      IF o = "ok"
                      THEN [models EXCEPT !.loads = id,
                                          !.state = [model_size |-> size, ctx |-> id],
                                          !.pre = [@ EXCEPT !.pc = "store", !.ctx = id]]
                      ELSE [models EXCEPT !.loads = IF o = "state_failed" THEN id ELSE @,
                                          !.pre = [CallIdle EXCEPT !.size = size,
                                                                   !.res = "TranscriptionError"]]
    /\ UNCHANGED noModelVars

\* whisper.rs 940-954: still under the lock, store the context and its labels.
PreloadStore ==
    /\ models.pre.pc = "store"
    /\ models' = [models EXCEPT
                    !.context = [id |-> models.pre.ctx, from |-> models.pre.size],
                    !.model_size = models.pre.size,
                    !.model_path = get_model_path(models.pre.size),
                    !.pre = [CallIdle EXCEPT !.size = models.pre.size, !.res = "Ok"]]
    /\ UNCHANGED noModelVars

\* whisper.rs 1013-1015, 618-630: run_whisper is called by transcribe or by the
\* monitor, both of which have found the model file on disk.
RunWhisperCall(size) ==
    /\ models.run.pc = "idle"
    /\ models.calls < MaxCalls
    /\ get_model_path(size) \in models.files
    /\ models' = [models EXCEPT !.calls = @ + 1,
                                !.run = [CallIdle EXCEPT !.pc = "cache", !.size = size]]
    /\ UNCHANGED noModelVars

\* whisper.rs 1130-1172: under the MODEL_CACHE lock, reload when the cache does
\* not hold this model, then take a reference to the cached context.
RunWhisperCache ==
    /\ models.run.pc = "cache"
    /\ models.pre.pc # "store"
    /\ LET size == models.run.size
           id == models.loads + 1
       IN IF Cached(size)
          THEN models' = [models EXCEPT !.run = [@ EXCEPT !.pc = "state",
                                                         !.ctx = models.context.id]]
          ELSE \E ok \in BOOLEAN :
                 /\ ok => (models.loads < MaxLoads /\ get_model_path(size) \in models.files)
                 /\ models' =
                      IF ok
                      THEN [models EXCEPT !.loads = id,
                                          !.context = [id |-> id, from |-> size],
                                          !.model_size = size,
                                          !.model_path = get_model_path(size),
                                          !.run = [@ EXCEPT !.pc = "state", !.ctx = id]]
                      ELSE [models EXCEPT !.run = [CallIdle EXCEPT !.size = size,
                                                                   !.res = "TranscriptionError"]]
    /\ UNCHANGED noModelVars

\* whisper.rs 1174-1198: take the warmed state when its label is this model
\* size, else create one, which can fail.
RunWhisperState ==
    /\ models.run.pc = "state"
    /\ IF models.state # NoState /\ models.state.model_size = models.run.size
       THEN models' = [models EXCEPT !.state = NoState, !.run = [@ EXCEPT !.pc = "infer"]]
       ELSE \E ok \in BOOLEAN :
              models' = [models EXCEPT
                           !.run = IF ok THEN [@ EXCEPT !.pc = "infer"]
                                   ELSE [CallIdle EXCEPT !.size = models.run.size,
                                                         !.res = "TranscriptionError"]]
    /\ UNCHANGED noModelVars

\* whisper.rs 1200-1423: inference; run_whisper returns and leaves a thread
\* behind that creates the next state from the context it used.
RunWhisperInfer ==
    /\ models.run.pc = "infer"
    /\ models' = [models EXCEPT
                    !.bg = @ \cup {[ctx |-> models.run.ctx, model_size |-> models.run.size]},
                    !.run = [CallIdle EXCEPT !.size = models.run.size, !.res = "Ok"]]
    /\ UNCHANGED noModelVars

\* whisper.rs 1367-1379, 1401-1421: the spawned thread stores the new state,
\* or nothing when create_state fails.
BackgroundState ==
    \E b \in models.bg : \E ok \in BOOLEAN :
        /\ models' = [models EXCEPT !.bg = @ \ {b},
                                    !.state = IF ok THEN b ELSE @]
        /\ UNCHANGED noModelVars

\* whisper.rs 295-298: delete_model removes the model file when there is one.
DeleteCall(size) ==
    /\ models.del.pc = "idle"
    /\ models.calls < MaxCalls
    /\ models' = [models EXCEPT
                    !.calls = @ + 1,
                    !.files = @ \ {get_model_path(size)},
                    !.del = IF get_model_path(size) \in models.files
                            THEN [CallIdle EXCEPT !.pc = "clear", !.size = size]
                            ELSE [CallIdle EXCEPT !.size = size, !.res = "Ok"]]
    /\ UNCHANGED noModelVars

\* whisper.rs 299-308: then it locks MODEL_CACHE and empties it when it holds
\* the deleted model.
DeleteClear ==
    /\ models.del.pc = "clear"
    /\ models.pre.pc # "store"
    /\ models' = [models EXCEPT
                    !.context = IF models.model_size = models.del.size THEN NoContext ELSE @,
                    !.model_size = IF @ = models.del.size THEN "" ELSE @,
                    !.model_path = IF models.model_size = models.del.size THEN <<>> ELSE @,
                    !.del = [CallIdle EXCEPT !.size = models.del.size, !.res = "Ok"]]
    /\ UNCHANGED noModelVars

\* ------------------------------------ the detector applied to one window
otherVars == <<appVars, capVars, whisperVars, voxVars, startc, stopc,
               nSessions, frames, nAdmin, lim, txt, models>>

\* one poll of the monitor on the window
VadMonitorPoll ==
    /\ vad.pc = "window"
    /\ LET u == MonitorUtterance(vad.window, vad.vad_ok, vad.seg_list)
       IN vad' = [vad EXCEPT !.pc = "monitor", !.submit = u.submit,
                             !.speech_samples = u.speech_samples,
                             !.clear_to_sample = u.clear_to_sample]
    /\ UNCHANGED otherVars

\* whisper.rs 974-985: the transcription thread filters the tail it was sent
\* and calls run_whisper unless the filtered samples are empty.
VadFilterTail ==
    /\ vad.pc = "window"
    /\ LET samples == vad_filter_speech(vad.window, vad.vad_ok, vad.seg_list)
       IN vad' = [vad EXCEPT !.pc = "filter", !.filtered = samples,
                             !.submit = (samples # <<>>)]
    /\ UNCHANGED otherVars

\* one chunk through VoiceActivityDetector::process
VadProcess ==
    /\ vad.pc = "detector"
    /\ vad.chunks < MaxChunks
    /\ \E samples \in SeqsUpTo(0..2, MaxChunkLen) :
         LET d1 == process(vad.detector, samples)
         IN vad' = [vad EXCEPT
                      !.detector = d1,
                      !.chunks = @ + 1,
                      !.loud = @ \/ is_speech(samples),
                      !.op = "process",
                      !.loud_since = IF is_speech(samples) THEN @ + Len(samples)
                                     ELSE IF vad.detector.is_speaking /\ ~d1.is_speaking
                                     THEN 0 ELSE @,
                      !.quiet_run = IF is_speech(samples) THEN 0 ELSE @ + Len(samples)]
    /\ UNCHANGED otherVars

\* vad.rs 68-73 VoiceActivityDetector::reset
VadReset ==
    /\ vad.pc = "detector"
    /\ vad.chunks < MaxChunks
    /\ vad' = [vad EXCEPT !.detector = [is_speaking |-> FALSE, silence_count |-> 0,
                                         speech_count |-> 0],
                          !.chunks = @ + 1, !.op = "reset",
                          !.loud_since = 0, !.quiet_run = 0]
    /\ UNCHANGED otherVars

\* the segment lists a detector can return for a window of n blocks: at most
\* two segments, in order, the last one possibly ending past the window
SegLists(n) ==
    LET Segs == {sg \in [start : 0..n, end : 1..(n + 1)] : sg.start < sg.end}
    IN {<<>>} \cup {<<a>> : a \in Segs}
              \cup {p \in Segs \X Segs : p[1].end <= p[2].start}

VadInputs ==
    {[VadNone EXCEPT !.pc = "detector"]} \cup
    UNION {{[VadNone EXCEPT !.pc = "window", !.window = [i \in 1..n |-> i],
                            !.seg_list = sl, !.vad_ok = ok, !.res = r] :
              sl \in SegLists(n), ok \in BOOLEAN, r \in {1, 2}} : n \in 0..MaxWindow}

\* ------------------------------------------------------- specifications
StartRecording(c) ==
    \/ StartCall(c)
    \/ StartBegin(c)
    \/ StartCheckStopping(c)
    \/ StartCheckThread(c)
    \/ StartClear(c)
    \/ StartSpawn(c)
    \/ StartStreaming(c)

StopContinue(c) ==
    \/ StopStreamingBegin(c)
    \/ StopVoxtralSignal(c)
    \/ StopWhisperJoin(c)
    \/ StopVoxtralJoin(c)
    \/ StopCaptureFlag(c)
    \/ StopCaptureTake(c)
    \/ StopCaptureJoin(c)
    \/ StopCaptureReturn(c)
    \/ StopTranscribe(c)

TranscriptionWorker(c) == TranscriptionWorkerStart(c) \/ TranscriptionWorkerDone(c)

StopRecording(c) == StopBegin(c) \/ StopContinue(c) \/ TranscriptionWorker(c)

MonitorThread(t) ==
    MonitorPoll(t) \/ MonitorCheckStop(t) \/ MonitorInferDone(t) \/ MonitorAdvance(t)
VoxtralThread(t) == VoxtralInit(t) \/ VoxtralLoop(t) \/ VoxtralFinal(t)
Streaming(t) == MonitorThread(t) \/ VoxtralThread(t)
CaptureThread(t) == CaptureThreadInit(t) \/ Callback(t) \/ CaptureThreadExit(t)
Background(t) == CaptureThread(t) \/ Streaming(t)

Next ==
    \/ \E c \in {1} : StartRecording(c)
    \/ \E c \in {1} : StopRecording(c)
    \/ \E t \in Threads : Background(t)
    \/ reset_recording_state
    \/ update_settings

Spec == Init /\ [][Next]_vars

\* One session from start to stop with nothing interfering.
InitSession ==
    /\ Idle
    /\ lim = [sessions |-> 1, frames |-> SessionFrames, admin |-> 0, once |-> FALSE,
              history |-> TRUE]
    /\ txt = TxtNone
    /\ vad = VadNone
    /\ models = ModelsNone

NextSession ==
    \/ \E c \in {1} : StartRecording(c)
    \/ \E c \in {1} : StopRecording(c)
    \/ \E t \in Threads : Background(t)

SessionSpec == InitSession /\ [][NextSession]_vars

\* One session during which the settings may be updated, with the scheduling
\* the runtime gives: a spawned thread keeps running, a command that was
\* invoked runs on.  Whether audio arrives and whether a command is invoked
\* is up to the environment.
InitFair ==
    /\ Idle
    /\ lim = [sessions |-> 1, frames |-> MaxFrames, admin |-> MaxAdmin, once |-> FALSE, history |-> FALSE]
    /\ txt = TxtNone
    /\ vad = VadNone
    /\ models = ModelsNone

NextFair == NextSession \/ update_settings

Fairness ==
    /\ \A t \in Threads : /\ WF_vars(CaptureThreadInit(t))
                          /\ WF_vars(CaptureThreadExit(t))
                          /\ WF_vars(MonitorThread(t))
                          /\ WF_vars(VoxtralThread(t))
    /\ WF_vars(StopContinue(1))
    /\ WF_vars(TranscriptionWorker(1))

FairSpec == InitFair /\ [][NextFair]_vars /\ Fairness

\* Two start_recording commands, each invoked once, from Idle.
InitStart ==
    /\ Idle
    /\ lim = [sessions |-> MaxSessions, frames |-> MaxFrames, admin |-> 0, once |-> TRUE, history |-> FALSE]
    /\ txt = TxtNone
    /\ vad = VadNone
    /\ models = ModelsNone

NextStart ==
    \/ \E c \in StartCallers : StartRecording(c)
    \/ \E t \in Threads : CaptureThreadInit(t) \/ Callback(t) \/ Streaming(t)

StartSpec == InitStart /\ [][NextStart]_vars

\* Two sessions one after the other with nothing but start and stop commands:
\* the second may be started while the stop of the first awaits its tail.
InitOverlap ==
    /\ Idle
    /\ lim = [sessions |-> MaxSessions, frames |-> OverlapFrames, admin |-> 0, once |-> FALSE, history |-> FALSE]
    /\ txt = TxtNone
    /\ vad = VadNone
    /\ models = ModelsNone

OverlapSpec == InitOverlap /\ [][NextSession]_vars

\* The text assembly on every input.
InitText ==
    /\ Idle
    /\ lim = [sessions |-> 0, frames |-> 0, admin |-> 0, once |-> FALSE, history |-> FALSE]
    /\ txt \in TextInputs
    /\ vad = VadNone
    /\ models = ModelsNone

NextText == TextJoin \/ TextTranscribe

TextSpec == InitText /\ [][NextText]_vars

InitVad ==
    /\ Idle
    /\ lim = [sessions |-> 0, frames |-> 0, admin |-> 0, once |-> FALSE, history |-> FALSE]
    /\ txt = TxtNone
    /\ vad \in VadInputs
    /\ models = ModelsNone

NextVad == VadMonitorPoll \/ VadFilterTail \/ VadProcess \/ VadReset

VadSpec == InitVad /\ [][NextVad]_vars

InitFilter ==
    /\ Idle
    /\ lim = [sessions |-> 0, frames |-> 0, admin |-> 0, once |-> FALSE, history |-> FALSE]
    /\ txt \in {[pc |-> "inferred", text |-> t, result |-> <<>>] : t \in InferenceTexts}
    /\ vad = VadNone
    /\ models = ModelsNone

FilterSpec == InitFilter /\ [][RunWhisperReturn]_vars

InitCache ==
    /\ Idle
    /\ lim = [sessions |-> 0, frames |-> 0, admin |-> 0, once |-> FALSE, history |-> FALSE]
    /\ txt = TxtNone
    /\ vad = VadNone
    /\ models \in {[ModelsNone EXCEPT !.files = f] :
                      f \in SUBSET {get_model_path(size) : size \in ModelSizes}}

NextCache ==
    \/ \E size \in ModelSizes : PreloadCall(size) \/ RunWhisperCall(size) \/ DeleteCall(size)
    \/ PreloadLocked \/ PreloadStore
    \/ RunWhisperCache \/ RunWhisperState \/ RunWhisperInfer \/ BackgroundState
    \/ DeleteClear

CacheSpec == InitCache /\ [][NextCache]_vars

\* Two sessions with one frame of audio, too little for the monitor to find
\* an utterance; stop_recording invoked by two callers, one reset_recording_state.
InitStop ==
    /\ Idle
    /\ lim = [sessions |-> MaxSessions, frames |-> 1, admin |-> MaxAdmin, once |-> TRUE,
              history |-> FALSE]
    /\ txt = TxtNone
    /\ vad = VadNone
    /\ models = ModelsNone

NextStop ==
    \/ \E c \in StartCallers : StartRecording(c)
    \/ \E c \in StopCallers : StopRecording(c)
    \/ \E t \in Threads : CaptureThread(t) \/ MonitorPoll(t) \/ VoxtralThread(t)
    \/ reset_recording_state

StopSpec == InitStop /\ [][NextStop]_vars

InitProcessText ==
    /\ Idle
    /\ lim = [sessions |-> 0, frames |-> 0, admin |-> 0, once |-> FALSE, history |-> FALSE]
    /\ txt \in {[pc |-> "raw", text |-> t, auto_capitalize |-> a, result |-> <<>>] :
                   t \in SeqsUpTo({"a", "B", "3", " ", ".", "!", "?"}, MaxProcessText),
                   a \in BOOLEAN}
    /\ vad = VadNone
    /\ models = ModelsNone

ProcessTextSpec == InitProcessText /\ [][ProcessText]_vars

\* ---------------------------------------------------------------- claims
StartReturned(c) == startc[c].pc = "idle" /\ startc[c].res # "none"
StartWinners == {c \in StartCallers : startc[c].res = "Ok"}
StreamingStarted == {t \in Threads : mon[t].st # "none" \/ vox[t].st # "none"}
StreamingRuns(t) ==
    /\ t # NoThread
    /\ \/ mon[t].st \in {"loop", "utter", "infer", "advance"}
       \/ vox[t].st \in {"init", "loop", "final"}

C3Claim ==
    [][\A c \in StartCallers :
          (startc[c].pc \in {"clear", "spawn"} /\ startc'[c].pc # startc[c].pc)
          => ~IS_STOPPING]_vars

\* C4: once stop_recording has read the fragment list (it is at stop_capture or
\* beyond), the streaming thread of the session whose capture it stops is
\* not running any more.
C4Claim ==
    \A c \in StopCallers :
        stopc[c].pc \in {"capture", "take", "cjoin", "unflag", "tail"}
        => ~StreamingRuns(IF stopc[c].pc \in {"capture", "take"}
                          THEN AUDIO_THREAD ELSE stopc[c].h)

\* The normalized audio of the session that the AudioData stands for: the
\* pre-processed buffer, or the raw buffer normalized after the fact.
Normalized(audio) == IF audio.some THEN audio.whisper_samples ELSE audio.samples
TailOf(c) ==
    TailAudio(stopc[c].use_voxtral, stopc[c].consumed,
              TrimToTail(stopc[c].audio, stopc[c].consumed))

\* C5: in a Whisper session, when stop_capture has returned, the consumed
\* offset is within the normalized audio, every fragment was made from samples
\* before the offset, and the tail is exactly the samples from the offset on.
C5Claim ==
    \A c \in StopCallers :
        (stopc[c].pc = "unflag" /\ ~stopc[c].use_voxtral) =>
            LET n == Normalized(stopc[c].audio)
                k == stopc[c].consumed
            IN /\ k <= Len(n)
               /\ \A i \in 1..Len(stopc[c].results) :
                     Range(stopc[c].results[i].src) \subseteq Range(Take(n, k))
               /\ TailOf(c).src = Drop(n, k)

\* C6: in every session, the audio handed to the one-shot transcription at
\* stop holds no sample that a streaming fragment was made from.
C6Claim ==
    \A c \in StopCallers :
        stopc[c].pc = "unflag" =>
            \A i \in 1..Len(stopc[c].results) :
                Range(stopc[c].results[i].src) \cap Range(TailOf(c).src) = {}

\* The text the inference made of the tail: none when there was no tail audio
\* or the streaming engine had taken everything.
TailText ==
    IF ~txt.samples \/ (txt.use_voxtral /\ txt.consumed_samples = USIZE_MAX)
    THEN <<>> ELSE txt.tail_text
Joined == join(txt.streaming_results, IF txt.use_voxtral THEN <<>> ELSE <<" ">>)

\* C7: the final text is the fragments in order, joined with one space for
\* Whisper and with nothing for Voxtral, followed by the tail text (after one
\* space when both are there); it is the joined fragments when the tail is
\* empty and the tail text when there are no fragments; an utterance gives the
\* same text as one fragment with an empty tail and as a tail without fragment.
C7Claim ==
    /\ txt.pc = "done" =>
          /\ TailText = <<>> => txt.raw_text = Joined
          /\ txt.streaming_results = <<>> => txt.raw_text = TailText
          /\ (TailText # <<>> /\ txt.streaming_results # <<>>)
                => txt.raw_text = Joined \o <<" ">> \o TailText
    /\ \A u \in Texts : \A v \in BOOLEAN :
          /\ raw_text(v, 0, streaming_prefix(<<u>>, v), FALSE, <<>>) = u
          /\ raw_text(v, 0, streaming_prefix(<<>>, v), TRUE, u) = u
          /\ raw_text(v, 0, streaming_prefix(<<u>>, v), TRUE, <<>>) = u

\* C7: a Whisper session with two fragments and a tail has its text.
C7Witness ==
    /\ txt.pc = "done"
    /\ ~txt.use_voxtral
    /\ txt.streaming_results = << <<"a">>, <<"b">> >>
    /\ txt.tail_text = <<"a">>
    /\ txt.raw_text = <<"a", " ", "b", " ", "a">>

\* C8: stop_capture that finds no capture thread returns NotRunning with the
\* stopping flag clear, no handle registered and the buffers and the resampler
\* state as before; stop_recording when not recording returns its error with
\* the capture and streaming state as before and the recording flag clear, so
\* that neither leaves anything a following start would be refused for.
C8Claim ==
    [][\A c \in StopCallers :
          /\ (stopc[c].pc = "take" /\ AUDIO_THREAD = NoThread /\ stopc'[c] # stopc[c])
             => /\ stopc'[c].pc = "idle"
                /\ stopc'[c].res = "NotRunning"
                /\ ~IS_STOPPING'
                /\ AUDIO_THREAD' = NoThread
                /\ UNCHANGED <<AUDIO_BUFFER, WHISPER_BUFFER, RESAMPLER_STATE, rs>>
          /\ (stopc[c].pc = "idle" /\ ~is_recording /\ stopc'[c] # stopc[c])
             => /\ stopc'[c].pc = "idle"
                /\ stopc'[c].res = "NotRecording"
                /\ ~is_recording'
                /\ UNCHANGED <<capVars, whisperVars, voxVars>>]_vars

\* C8: stop_capture has returned NotRunning and a later start has succeeded.
C8Witness ==
    /\ stopc[1].pc = "idle"
    /\ stopc[1].res = "NotRunning"
    /\ ~IS_STOPPING
    /\ startc[1].res = "Ok"
    /\ AUDIO_THREAD = 2

Cleared ==
    /\ ~is_recording
    /\ AUDIO_THREAD = NoThread
    /\ ~IS_STOPPING
    /\ AUDIO_BUFFER = <<>>
    /\ WHISPER_BUFFER = <<>>
    /\ RESAMPLER_STATE = NoThread
    /\ CURRENT_AUDIO_LEVEL = 0
    /\ VAD_MONITOR = NoThread
    /\ VOXTRAL_STREAM_HANDLE = NoThread
    /\ \A t \in Threads : ~StreamingRuns(t)
    /\ STREAMING_RESULTS = <<>>
    /\ VOXTRAL_STREAMING_RESULTS = <<>>
    /\ STREAMING_CONSUMED = 0

\* C9: right after reset_recording_state, from whatever state it was called
\* in, all session state is cleared: not recording, no capture handle, flag
\* clear, buffers empty, no resampler state, level 0, and no streaming thread,
\* fragment list or consumed cursor left.
C9Claim == [][reset_recording_state => Cleared']_vars

SessionOver ==
    /\ ~is_recording
    /\ VAD_MONITOR = NoThread
    /\ VOXTRAL_STREAM_HANDLE = NoThread
    /\ AUDIO_THREAD = NoThread
    /\ ~IS_STOPPING
    /\ \A t \in Threads : ~StreamingRuns(t) /\ cap[t].st \in {"none", "done"}

\* C10: once stop_recording has been issued on a recording session, the
\* streaming thread and the capture thread eventually end and the system is
\* Idle: not recording, no streaming handle, no capture handle, flag clear.
C10Claim == (stopc[1].pc = "streaming") ~> SessionOver

\* C11: an inference the monitor has started is never abandoned: it is
\* followed by its cursor advance; and whenever stop_streaming has returned,
\* the cursor it returns includes the advance of every fragment it returns.
C11Claim ==
    [][/\ \A t \in Threads :
             /\ (mon[t].st = "infer" /\ mon'[t].st # "infer") => mon'[t].st = "advance"
             /\ (mon[t].st = "advance" /\ mon'[t].st # "advance")
                   => /\ mon'[t].st = "loop"
                      /\ STREAMING_CONSUMED' = mon'[t].pending_start
       /\ \A c \in StopCallers :
             (stopc'[c].pc = "capture" /\ ~stopc'[c].use_voxtral)
             => \A i \in 1..Len(stopc'[c].results) :
                   stopc'[c].results[i].upto <= stopc'[c].consumed]_vars

\* C12: at most one streaming-monitor thread is alive at any time, and a
\* live monitor is one whose handle is registered in VAD_MONITOR or held by
\* the stop_streaming call that is joining it.
LiveMonitors == {t \in Threads : mon[t].st \in {"loop", "utter", "infer", "advance"}}

C12Claim ==
    /\ Cardinality(LiveMonitors) <= 1
    /\ \A t \in LiveMonitors :
          \/ VAD_MONITOR = t
          \/ \E c \in StopCallers : stopc[c].pc = "wjoin" /\ stopc[c].h = t

\* C13: at no time are two Whisper inferences running: the run_whisper calls
\* of the streaming monitors and the one of the transcription thread working
\* on a stop-time tail exclude one another.
RunningInferences ==
    Cardinality({t \in Threads : mon[t].st = "infer"})
    + Cardinality({c \in StopCallers : stopc[c].pc = "run_whisper"})

C13Claim == RunningInferences <= 1

\* C14: when stop_capture has joined the capture thread and hands back the
\* normalized buffer, that buffer holds every block delivered to a callback of
\* the session, once each and in delivery order, on the resampling path as on
\* the 16 kHz path, whether or not a callback met a held buffer lock.
C14Claim ==
    \A c \in StopCallers :
        (stopc[c].pc = "unflag" /\ stopc[c].audio.some)
        => stopc[c].audio.whisper_samples = stopc[c].audio.samples

Delivered(t) == [k \in 1..frames |-> <<t, k>>]

C17Claim ==
    /\ \A t \in Threads :
          (cap[t].path = "norsmp")
          => /\ WHISPER_BUFFER = <<>>
             /\ STREAMING_RESULTS = <<>>
             /\ STREAMING_CONSUMED = 0
    /\ \A c \in StopCallers :
          (stopc[c].pc \in {"unflag", "tail"} /\ stopc[c].h # NoThread)
          => (cap[stopc[c].h].path = "norsmp"
              => /\ ~stopc[c].audio.some
                 /\ stopc[c].audio.samples = Delivered(stopc[c].h)
                 /\ stopc[c].results = <<>>
                 /\ stopc[c].consumed = 0
                 /\ (stopc[c].pc = "tail" /\ frames > 0)
                       => TailAudio(stopc[c].use_voxtral, stopc[c].consumed,
                                    stopc[c].audio)
                          = [kind |-> "raw", src |-> Delivered(stopc[c].h)])

\* C18: when the capture thread of a start_recording command could not
\* acquire the device, the command has returned an error and no session is
\* active: its thread is not registered and is_recording is false.
C18Claim ==
    \A c \in StartCallers :
        (StartReturned(c) /\ startc[c].t # NoThread /\ cap[startc[c].t].path = "fail")
        => /\ startc[c].res # "Ok"
           /\ AUDIO_THREAD # startc[c].t
           /\ ~is_recording

\* C19: when start_recording returns the error of a Voxtral streaming start
\* that failed, capture has been rolled back: no capture thread is registered
\* and is_recording is false; and no later start_recording is rejected by
\* start_capture with AlreadyRunning.
C19Claim ==
    [][\A c \in StartCallers :
          /\ (startc[c].pc = "streaming" /\ startc'[c].res = "VoxtralStartFailed")
                => (AUDIO_THREAD' = NoThread /\ ~is_recording')
          /\ (startc[c].res = "VoxtralStartFailed")
                => \A d \in StartCallers \ {c} : startc'[d].res # "AlreadyRunning"]_vars

\* C20: from the moment voxtral::stop_streaming has stored the stop cutoff
\* until it has joined the streaming thread, no pass of the streaming loop
\* feeds the stream a sample at an index at or beyond the cutoff.
C20Claim ==
    [][(\E c \in StopCallers : stopc[c].pc \in {"vsignal", "vjoin"})
       => \A t \in Threads :
             (vox[t].st = "loop" /\ vox'[t].abs_position > vox[t].abs_position)
             => vox'[t].abs_position <= VOXTRAL_STOP_BUFFER_LEN]_vars

\* C21: when voxtral::stop_streaming returns after joining a streaming thread
\* that had initialised its stream, the samples the stream accepted begin
\* with the normalized samples below the stop cutoff, each once and in order,
\* finish() has been called, and the results returned are all the fragments
\* recorded, each decoded from samples that were fed.
FedUpToCutoff(t) ==
    /\ Len(vox[t].fed) >= Min(VOXTRAL_STOP_BUFFER_LEN, Len(WHISPER_BUFFER))
    /\ Take(vox[t].fed, VOXTRAL_STOP_BUFFER_LEN)
          = Take(WHISPER_BUFFER, VOXTRAL_STOP_BUFFER_LEN)

C21Claim ==
    [][\A c \in StopCallers :
          (/\ stopc[c].pc = "vjoin"
           /\ stopc'[c].pc = "capture"
           /\ stopc[c].h # NoThread
           /\ vox[stopc[c].h].finished)
          => /\ FedUpToCutoff(stopc[c].h)
             /\ stopc'[c].results = VOXTRAL_STREAMING_RESULTS
             /\ \A i \in 1..Len(stopc'[c].results) :
                   Range(stopc'[c].results[i].src) \subseteq Range(vox[stopc[c].h].fed)]_vars

\* C22: voxtral::stop_streaming returns the sentinel usize::MAX only when the
\* thread it joined had initialised its stream and fed it every normalized
\* sample below the stop cutoff.
C22Claim ==
    [][\A c \in StopCallers :
          (/\ stopc[c].pc = "vjoin"
           /\ stopc'[c].pc = "capture"
           /\ stopc'[c].consumed = USIZE_MAX)
          => /\ stopc[c].h # NoThread
             /\ vox[stopc[c].h].finished
             /\ FedUpToCutoff(stopc[c].h)]_vars

\* C23: a stop_recording on a session to which no callback delivered audio
\* collects no fragment and an empty raw buffer, hands nothing to the
\* transcription, makes the empty text, returns without an error, and leaves
\* the system Idle with every buffer empty.
C23Claim ==
    [][\A c \in StopCallers :
          (frames = 0 /\ stopc[c].pc = "tail" /\ stopc'[c].pc # "tail")
          => /\ stopc[c].results = <<>>
             /\ stopc[c].audio.samples = <<>>
             /\ TailOf(c).kind = "none"
             /\ \A w \in Texts \cup {<<>>} :
                   raw_text(stopc[c].use_voxtral, stopc[c].consumed,
                            streaming_prefix(<<>>, stopc[c].use_voxtral),
                            FALSE, w) = <<>>
             /\ stopc'[c].pc = "idle"
             /\ stopc'[c].res = "Returned"
             /\ SessionOver'
             /\ AUDIO_BUFFER' = <<>> /\ WHISPER_BUFFER' = <<>>]_vars

\* C24: stop_recording stops the streaming side with the engine the session
\* was started with, whatever update_settings did since: it takes the Voxtral
\* path exactly when the session started a Voxtral streaming thread, and when
\* its stop_streaming has returned no streaming thread of the session runs.
C24Claim ==
    [][\A c \in StopCallers :
          /\ (stopc[c].pc = "streaming" /\ stopc'[c].pc # "streaming")
                => (stopc'[c].use_voxtral <=> \E t \in Threads : vox[t].st # "none")
          /\ (stopc[c].pc \in {"wjoin", "vjoin"} /\ stopc'[c].pc = "capture")
                => \A t \in Threads : ~StreamingRuns(t)]_vars

\* C25: audio in which the detector finds no speech segment is never submitted
\* for transcription: the monitor's poll submits nothing and leaves the cursor,
\* the stop-time filter hands nothing to run_whisper, and the energy gate does
\* not report speech while every chunk it was given is below the threshold.
C25Claim ==
    /\ (vad.pc = "monitor" /\ vad.seg_list = <<>>)
          => (~vad.submit /\ vad.clear_to_sample = 0)
    /\ (vad.pc = "filter" /\ vad.vad_ok /\ vad.seg_list = <<>>) => ~vad.submit
    /\ (vad.pc = "detector" /\ ~vad.loud) => ~vad.detector.is_speaking

\* extracting the spans of segs takes away more than 80% of the samples
RemovesMost(samples, segs) == 5 * Len(ExtractSpeech(samples, segs)) < Len(samples)

\* C26: when extracting the detected speech spans would remove more than 80%
\* of the window, the untrimmed window is what is transcribed, in the stop-time
\* filter and in the streaming monitor's utterance extraction.
C26Claim ==
    /\ (vad.pc = "filter" /\ vad.vad_ok /\ RemovesMost(vad.window, vad.seg_list))
          => vad.filtered = vad.window
    /\ (vad.pc = "monitor" /\ vad.submit /\ RemovesMost(vad.window, vad.seg_list))
          => vad.speech_samples = vad.window

\* r is text without its leading and trailing white space
IsTrimmed(r, text) ==
    \E i \in 1..(Len(text) + 1) : \E j \in (i - 1)..Len(text) :
        /\ r = SubSeq(text, i, j)
        /\ \A k \in 1..Len(text) : (k < i \/ k > j) => text[k] \in WhiteSpace
        /\ r # <<>> => (r[1] \notin WhiteSpace /\ r[Len(r)] \notin WhiteSpace)

\* the lower-cased text is a stock phrase, alone or followed by one '.' or '!'
StockPhrase(r) ==
    \E phrase \in HALLUCINATION_PHRASES :
        to_lowercase(r) \in {phrase, phrase \o <<".">>, phrase \o <<"!">>}

NoDuplicate(q) == \A i, j \in 1..Len(q) : i < j => q[i] # q[j]

\* the samples of the normalized buffer behind index from
BufferFrom(from) == SubSeq(WHISPER_BUFFER, from + 1, Len(WHISPER_BUFFER))

\* C28: the read cursor of a streaming reader never decreases and no index of
\* the normalized buffer is copied into the monitor's window or fed to the
\* Voxtral stream twice: a poll that reads takes exactly the samples from the
\* cursor to the current length of the buffer and sets the cursor to that
\* length, so the window always holds the samples between the consumed offset
\* and the cursor, once each.
C28Claim ==
    [][\A t \in Threads :
          /\ (mon[t].st \in {"loop", "utter", "infer", "advance"}
                  /\ mon'[t].st \in {"loop", "utter", "infer", "advance"})
                => /\ mon'[t].abs_position >= mon[t].abs_position
                   /\ mon'[t].pending_start + Len(mon'[t].pending_audio)
                         = mon'[t].abs_position
                   /\ mon'[t].abs_position # mon[t].abs_position
                         => /\ mon'[t].abs_position = Len(WHISPER_BUFFER)
                            /\ mon'[t].pending_audio
                                  = mon[t].pending_audio \o BufferFrom(mon[t].abs_position)
                   /\ (mon'[t].abs_position = mon[t].abs_position
                          /\ mon[t].st = "loop")
                         => \/ mon'[t].pending_audio = mon[t].pending_audio
                            \/ mon'[t].pending_start # mon[t].pending_start
          /\ (vox[t].st = "loop" /\ vox'[t].st \in {"loop", "final"})
                => /\ vox'[t].abs_position >= vox[t].abs_position
                   /\ vox'[t].abs_position # vox[t].abs_position
                         => /\ vox'[t].abs_position = Len(WHISPER_BUFFER)
                            /\ lim.history =>
                                  vox'[t].fed = vox[t].fed \o BufferFrom(vox[t].abs_position)
                   /\ vox'[t].abs_position = vox[t].abs_position
                         => vox'[t].fed = vox[t].fed
          /\ NoDuplicate(vox'[t].fed)]_vars

\* the monitor consumed an utterance and later read more of the buffer, or
\* the Voxtral stream was fed in more than one piece
C28Witness ==
    \/ \E t \in Threads :
          /\ mon[t].st = "loop"
          /\ mon[t].pending_start > 0
          /\ mon[t].abs_position > mon[t].pending_start + 1
          /\ mon[t].abs_position = Len(WHISPER_BUFFER)
    \/ \E t \in Threads :
          /\ vox[t].st = "done" /\ vox[t].finished
          /\ Len(vox[t].fed) > 2

IsPrefix(p, q) == Len(p) <= Len(q) /\ p = SubSeq(q, 1, Len(p))

\* a step of start_capture's clearing or of stop_capture's draining
CaptureShrinkStep ==
    \/ \E c \in StartCallers : startc[c].pc = "clear" /\ startc'[c].pc = "spawn"
    \/ \E c \in StopCallers : stopc[c].pc = "cjoin" /\ stopc'[c].pc = "unflag"

\* C29: the read cursor of every live streaming reader is at most the length
\* of the normalized buffer, and the raw and the normalized buffer lose
\* samples only in start_capture and in stop_capture, never while a streaming
\* reader is alive.
C29Claim ==
    [][/\ \A t \in Threads :
             /\ mon'[t].st \in {"loop", "utter", "infer", "advance"}
                   => mon'[t].abs_position <= Len(WHISPER_BUFFER')
             /\ vox'[t].st \in {"loop", "final"}
                   => vox'[t].abs_position <= Len(WHISPER_BUFFER')
       /\ ~(IsPrefix(WHISPER_BUFFER, WHISPER_BUFFER') /\ IsPrefix(AUDIO_BUFFER, AUDIO_BUFFER'))
             => /\ CaptureShrinkStep
                /\ \A t \in Threads : ~StreamingRuns(t)]_vars

C31Claim ==
    (/\ vad.pc \in {"monitor", "filter"}
     /\ vad.vad_ok
     /\ ExtractSpeech(vad.window, vad.seg_list) # <<>>
     /\ Len(ExtractSpeech(vad.window, vad.seg_list)) < Blocks(MIN_FILTERED_SAMPLES))
        => ~vad.submit

\* C32: when loading or running the VAD model fails nothing is aborted: the
\* stop-time filter hands its whole input to inference, and a poll of the
\* streaming monitor submits nothing and consumes nothing of its window, which
\* is therefore left for the tail.
C32Claim ==
    /\ (vad.pc = "filter" /\ ~vad.vad_ok)
          => (vad.filtered = vad.window /\ (vad.submit <=> vad.window # <<>>))
    /\ (vad.pc = "monitor" /\ ~vad.vad_ok)
          => (~vad.submit /\ vad.clear_to_sample = 0 /\ vad.speech_samples = <<>>)

\* the detector failed on a stop-time tail of more than a second, which went
\* to inference whole
C32Witness ==
    /\ vad.pc = "filter"
    /\ ~vad.vad_ok
    /\ Len(vad.window) > Blocks(MIN_VAD_SAMPLES)
    /\ vad.filtered = vad.window
    /\ vad.submit

\* C33: when run_whisper fails for an utterance in the streaming monitor, no
\* fragment is appended for it, the cursor still advances past the utterance,
\* the monitor keeps running, and later utterances are appended, in order,
\* behind everything appended before.
C33Claim ==
    [][\A t \in Threads :
          /\ (mon[t].st = "infer" /\ mon'[t].err # mon[t].err)
                => /\ STREAMING_RESULTS' = STREAMING_RESULTS
                   /\ mon'[t].st = "advance"
                   /\ mon'[t].err = mon[t].pending_start + mon[t].seg_end
          /\ (mon[t].st = "advance" /\ mon'[t].st # "advance")
                => /\ mon'[t].st = "loop"
                   /\ mon'[t].pending_start = mon[t].pending_start + mon[t].seg_end
                   /\ mon'[t].pending_start >= mon[t].err
                   /\ STREAMING_CONSUMED' = mon'[t].pending_start
          /\ (mon[t].st = "infer" /\ STREAMING_RESULTS' # STREAMING_RESULTS)
                => /\ Len(STREAMING_RESULTS') = Len(STREAMING_RESULTS) + 1
                   /\ SubSeq(STREAMING_RESULTS', 1, Len(STREAMING_RESULTS)) = STREAMING_RESULTS
                   /\ LET f == STREAMING_RESULTS'[Len(STREAMING_RESULTS')]
                      IN /\ f.by = t
                         /\ f.upto > mon[t].err
                         /\ \A i \in 1..Len(STREAMING_RESULTS) :
                               STREAMING_RESULTS[i].upto < f.upto]_vars

\* an utterance failed and a later utterance of the session was appended
C33Witness ==
    \E t \in Threads :
        /\ mon[t].st \in {"loop", "advance"}
        /\ mon[t].err > 0
        /\ \E i \in 1..Len(STREAMING_RESULTS) :
              STREAMING_RESULTS[i].by = t /\ STREAMING_RESULTS[i].upto > mon[t].err

\* C34: preload_model is idempotent: called when the cache holds a context for
\* the requested model it returns Ok, and it does so without loading and
\* without changing the model slot or the warmed-state slot; and in every state
\* the labels of the slot name the model its context was loaded from.
C34Claim ==
    [][/\ \A size \in ModelSizes :
             (models.pre.pc = "idle" /\ models'.pre.size = size
                 /\ models'.calls # models.calls /\ models'.pre # models.pre
                 /\ Cached(size))
               => models'.pre.res # "ModelNotFound"
       /\ (models.pre.pc = "lock" /\ Cached(models.pre.size) /\ models'.pre # models.pre)
               => /\ models'.pre.res = "Ok"
                  /\ models'.loads = models.loads
                  /\ models'.context = models.context
                  /\ models'.model_size = models.model_size
                  /\ models'.model_path = models.model_path
                  /\ models'.state = models.state
       /\ models'.context # NoContext
               => /\ models'.model_size = models'.context.from
                  /\ models'.model_path = get_model_path(models'.context.from)]_vars

\* C35: the energy detector has hysteresis: it starts reporting speech only on
\* a chunk above the threshold with which the samples above the threshold
\* since construction, reset or the last end of speech reach
\* min_speech_samples; once it reports speech it goes on doing so exactly
\* until silence_samples samples below the threshold have come in a row; and
\* reset leaves it as a newly constructed detector.
C35Claim ==
    [][(vad'.pc = "detector" /\ vad'.chunks # vad.chunks) =>
          /\ (vad'.op = "process" /\ ~vad.detector.is_speaking /\ vad'.detector.is_speaking)
                => (vad'.quiet_run = 0 /\ vad'.loud_since >= min_speech_samples)
          /\ (vad'.op = "process" /\ vad.detector.is_speaking)
                => (vad'.detector.is_speaking <=> vad'.quiet_run < silence_samples)
          /\ vad'.op = "reset" => vad'.detector = DetectorNew]_vars

\* the detector goes on reporting speech after chunks below the threshold that
\* together are shorter than silence_samples
C35Witness ==
    /\ vad.pc = "detector"
    /\ vad.op = "process"
    /\ vad.detector.is_speaking
    /\ vad.quiet_run > 1
    /\ vad.quiet_run < silence_samples
    /\ vad.loud_since >= min_speech_samples

\* position i of text holds the first letter of the text or the first letter
\* after a sentence-ending '.', '!' or '?'
FirstLetter(text, i) ==
    /\ is_alphabetic(text[i])
    /\ \A j \in 1..(i - 1) :
          is_alphabetic(text[j]) => \E k \in (j + 1)..(i - 1) : text[k] \in {".", "!", "?"}

\* C36: process_text without auto_capitalize returns its input; with it, it
\* puts the first letter of the text and the first letter after each '.', '!'
\* or '?' in upper case and leaves the length and every other character.
C36Claim ==
    txt.pc = "processed" =>
        IF ~txt.auto_capitalize THEN txt.result = txt.text
        ELSE /\ Len(txt.result) = Len(txt.text)
             /\ \A i \in 1..Len(txt.text) :
                   txt.result[i] = IF FirstLetter(txt.text, i)
                                   THEN to_uppercase_char(txt.text[i])
                                   ELSE txt.text[i]

\* C37: while a stop_capture call is between taking the capture thread handle
\* and returning, no step of another stop_capture call clears the stopping
\* flag, also not one that returns NotRunning.
C37Claim ==
    [][\A c \in StopCallers :
          (/\ stopc[c].pc \in {"cjoin", "unflag"}
           /\ IS_STOPPING
           /\ \E d \in StopCallers \ {c} : stopc'[d] # stopc[d])
          => IS_STOPPING']_vars

\* C38: once a new session has cleared the buffers and registered its capture
\* thread, the raw and the normalized buffer hold no sample delivered by the
\* stream of a capture thread that reset_state dropped.
C38Claim ==
    \A u \in Threads :
       (cap[u].sig = "dropped" /\ AUDIO_THREAD # NoThread /\ AUDIO_THREAD # u)
       => \A i \in 1..Len(AUDIO_BUFFER) \cup 1..Len(WHISPER_BUFFER) :
             /\ i <= Len(AUDIO_BUFFER) => AUDIO_BUFFER[i][1] # u
             /\ i <= Len(WHISPER_BUFFER) => WHISPER_BUFFER[i][1] # u

\* monitor t is in its loop
MonitorLive(t) == mon[t].st \in {"loop", "utter", "infer", "advance"}

\* C39: while a streaming monitor runs, pending_start + len(pending_audio) is
\* abs_position, STREAMING_CONSUMED is its pending_start, is at most
\* abs_position and never decreases; start_streaming sets STREAMING_CONSUMED
\* to 0, stop_streaming returns it and sets it to 0.
C39Claim ==
    [][/\ \A t \in Threads :
            MonitorLive(t)' =>
               /\ mon'[t].pending_start + Len(mon'[t].pending_audio) = mon'[t].abs_position
               /\ STREAMING_CONSUMED' = mon'[t].pending_start
               /\ STREAMING_CONSUMED' <= mon'[t].abs_position
       /\ (\E t \in Threads : MonitorLive(t) /\ MonitorLive(t)')
             => STREAMING_CONSUMED' >= STREAMING_CONSUMED
       /\ \A c \in StartCallers :
            (startc[c].pc = "streaming" /\ startc'[c].res = "Ok" /\ engine = "whisper")
               => STREAMING_CONSUMED' = 0
       /\ \A c \in StopCallers :
            (stopc[c].pc = "wjoin" /\ stopc'[c].pc = "capture")
               => (stopc'[c].consumed = STREAMING_CONSUMED /\ STREAMING_CONSUMED' = 0)]_vars

\* C40: when stop_capture flushes the resampler, the accumulator it passes to
\* process_partial holds less than one chunk.
C40Claim ==
    [][\A c \in StopCallers :
          (/\ stopc[c].pc = "cjoin"
           /\ stopc'[c].pc = "unflag"
           /\ RESAMPLER_STATE # NoThread
           /\ ~rs[RESAMPLER_STATE].failed)
          => Len(rs[RESAMPLER_STATE].acc) < chunk_size]_vars

====
